---- MODULE Spec2Model ----
(***************************************************************************)
(* The ReAct agent engine of claude-model-benchmark (src/src/agent.ts):    *)
(* the response parser parseAgentResponse and the step loop runAgent.      *)
(*                                                                         *)
(* Text is a sequence of tokens.  Each marker the parser looks for is one  *)
(* token, whitespace is the tokens " " and "\n", and every other token is  *)
(* one character of content.  No marker is a prefix of another one         *)
(* ("Action:" and "Action Input:" differ at their seventh character), so   *)
(* startsWith, slice, indexOf, split, trim and join on tokens do what the  *)
(* JavaScript string operations do on the characters.                      *)
(***************************************************************************)
EXTENDS Integers, Sequences, FiniteSets, TLC

VARIABLES
    text,        \* the raw reply handed to parseAgentResponse (response.text)
    parsed,      \* what parseAgentResponse returned for it, NotParsed before
    pc,          \* runAgent: position of the run
    providers,   \* runAgent: getAvailableProviders() of the environment
    tools,       \* runAgent: options.tools
    context,     \* runAgent: options.context
    maxSteps,    \* runAgent: options.maxSteps
    i,           \* runAgent: the loop counter
    messages,    \* runAgent: the transcript
    steps,       \* runAgent: the step trace
    systemPrompt,\* runAgent: the system prompt built from the tools
    result,      \* runAgent: the returned AgentResult, or the raised error
    calls,       \* history: the completion calls made, each with what it was
                 \* passed and how it resolved
    toolLog,     \* history: the execute calls made, each with how it resolved
    other,       \* a second run of runAgent in the same process, suspended at
                 \* an await: its options, locals and histories (NoRun: none)
    focus,       \* which of the two runs the variables above belong to
    env,         \* process.env: the value of each provider's key variable
    options,     \* the arguments of the call of the benchmark library or the
                 \* command line under test (NoOptions: none)
    bpc,         \* position of that call
    modelsToRun, \* runBenchmark: the models to benchmark
    results,     \* runBenchmark: the result rows; the input of computeStats
    at,          \* runBenchmark: the prompt and the model of the next row
    returned     \* what the call returned or raised; the exit code of main

benchVars == <<env, options, bpc, modelsToRun, results, at, returned>>
agentVars == <<text, parsed, pc, providers, tools, context, maxSteps, other,
               focus, i, messages, steps, systemPrompt, result, calls, toolLog>>
runVars == <<pc, providers, tools, context, maxSteps, other, focus, benchVars, i, messages, steps,
             systemPrompt, result, calls, toolLog>>
vars == <<text, parsed, pc, providers, tools, context, maxSteps, other, focus, benchVars, i, messages,
          steps, systemPrompt, result, calls, toolLog>>

----------------------------------------------------------------------------
(* Bounds of the model *)

MaxSteps == 3      \* maxSteps is drawn from 0..MaxSteps
MaxLen == 4        \* every text of at most MaxLen tokens is parsed
MaxLines == 3      \* every text of at most MaxLines lines of SampleLines is parsed

----------------------------------------------------------------------------
(* Tokens *)

MThought == "Thought:"
MAction == "Action:"
MActionInput == "Action Input:"
MFinalAnswer == "Final Answer:"
MObservation == "Observation:"
SP == " "
NL == "\n"

Markers == {MThought, MAction, MActionInput, MFinalAnswer, MObservation}
Whitespace == {SP, NL}
Content == {"x", "y"}
Alphabet == Markers \cup Whitespace \cup Content

\* The value of an absent optional field; no text holds this token.
Undefined == <<"undefined">>

----------------------------------------------------------------------------
(* String operations *)

RECURSIVE TrimStart(_)
TrimStart(s) ==
    IF s # <<>> /\ Head(s) \in Whitespace THEN TrimStart(Tail(s)) ELSE s

RECURSIVE TrimEnd(_)
TrimEnd(s) ==
    IF s # <<>> /\ s[Len(s)] \in Whitespace
    THEN TrimEnd(SubSeq(s, 1, Len(s) - 1))
    ELSE s

Trim(s) == TrimEnd(TrimStart(s))

StartsWith(s, marker) == s # <<>> /\ Head(s) = marker

\* s.slice(n) for n the length of a leading marker: the text after the marker
SliceMarker(s) == Tail(s)

\* text.indexOf(marker): the first position of the marker, 0 when absent
IndexOf(s, marker) ==
    IF \E k \in 1..Len(s) : s[k] = marker
    THEN CHOOSE k \in 1..Len(s) :
            s[k] = marker /\ \A m \in 1..(k - 1) : s[m] # marker
    ELSE 0

\* s.slice(idx + 13) for idx = IndexOf(s, marker): the text after position k
SliceAfter(s, k) == SubSeq(s, k + 1, Len(s))

RECURSIVE SplitFrom(_, _, _)
SplitFrom(s, cur, out) ==
    IF s = <<>> THEN Append(out, cur)
    ELSE IF Head(s) = NL THEN SplitFrom(Tail(s), <<>>, Append(out, cur))
    ELSE SplitFrom(Tail(s), Append(cur, Head(s)), out)

\* text.split("\n")
Split(s) == SplitFrom(s, <<>>, <<>>)

RECURSIVE Join(_, _)
Join(ss, sep) ==
    IF ss = <<>> THEN <<>>
    ELSE IF Len(ss) = 1 THEN ss[1]
    ELSE ss[1] \o sep \o Join(Tail(ss), sep)

----------------------------------------------------------------------------
(* parseAgentResponse *)

IsStopLine(line) ==
    LET nt == Trim(line) IN
        \/ StartsWith(nt, MThought)
        \/ StartsWith(nt, MAction)
        \/ StartsWith(nt, MFinalAnswer)
        \/ StartsWith(nt, MObservation)

\* InputLines pushing each following line trimmed instead of verbatim
RECURSIVE InputLinesTrimmed(_, _, _)
InputLinesTrimmed(lines, j, inputLines) ==
    IF j > Len(lines) \/ IsStopLine(lines[j]) THEN inputLines
    ELSE InputLinesTrimmed(lines, j + 1, Append(inputLines, Trim(lines[j])))

\* the inner loop of the Action Input branch: lines j.. up to the stop line
RECURSIVE InputLines(_, _, _)
InputLines(lines, j, inputLines) ==
    IF j > Len(lines) \/ IsStopLine(lines[j]) THEN inputLines
    ELSE InputLines(lines, j + 1, Append(inputLines, lines[j]))

\* ScanLines taking as the final answer the rest of the marker's line only
RECURSIVE ScanLinesLineAnswer(_, _, _, _)
ScanLinesLineAnswer(raw, lines, k, acc) ==
    IF k > Len(lines) THEN acc
    ELSE LET trimmed == Trim(lines[k]) IN
        IF StartsWith(trimmed, MThought)
        THEN ScanLinesLineAnswer(raw, lines, k + 1,
                [acc EXCEPT !.thought = Trim(SliceMarker(trimmed))])
        ELSE IF StartsWith(trimmed, MAction) /\ ~StartsWith(trimmed, MActionInput)
        THEN ScanLinesLineAnswer(raw, lines, k + 1,
                [acc EXCEPT !.action = Trim(SliceMarker(trimmed))])
        ELSE IF StartsWith(trimmed, MActionInput)
        THEN LET rest == Trim(SliceMarker(trimmed))
                 inputLines == InputLines(lines, k + 1, <<rest>>)
             IN ScanLinesLineAnswer(raw, lines, k + 1,
                    [acc EXCEPT !.actionInput = Trim(Join(inputLines, <<NL>>))])
        ELSE IF StartsWith(trimmed, MFinalAnswer)
        THEN [acc EXCEPT !.finalAnswer = Trim(SliceMarker(trimmed))]
        ELSE ScanLinesLineAnswer(raw, lines, k + 1, acc)

\* ScanLines taking a line with the Final Answer marker anywhere in it, not
\* only at its start, as the final answer
RECURSIVE ScanLinesMarkerAnywhere(_, _, _, _)
ScanLinesMarkerAnywhere(raw, lines, k, acc) ==
    IF k > Len(lines) THEN acc
    ELSE LET trimmed == Trim(lines[k]) IN
        IF StartsWith(trimmed, MThought)
        THEN ScanLinesMarkerAnywhere(raw, lines, k + 1,
                [acc EXCEPT !.thought = Trim(SliceMarker(trimmed))])
        ELSE IF StartsWith(trimmed, MAction) /\ ~StartsWith(trimmed, MActionInput)
        THEN ScanLinesMarkerAnywhere(raw, lines, k + 1,
                [acc EXCEPT !.action = Trim(SliceMarker(trimmed))])
        ELSE IF StartsWith(trimmed, MActionInput)
        THEN LET rest == Trim(SliceMarker(trimmed))
                 inputLines == InputLines(lines, k + 1, <<rest>>)
             IN ScanLinesMarkerAnywhere(raw, lines, k + 1,
                    [acc EXCEPT !.actionInput = Trim(Join(inputLines, <<NL>>))])
        ELSE IF \E m \in 1..Len(trimmed) : trimmed[m] = MFinalAnswer
        THEN LET idx == IndexOf(raw, MFinalAnswer) IN
                [acc EXCEPT !.finalAnswer = Trim(SliceAfter(raw, idx))]
        ELSE ScanLinesMarkerAnywhere(raw, lines, k + 1, acc)

\* ScanLines ignoring a Final Answer line once an action has been parsed
RECURSIVE ScanLinesActionWins(_, _, _, _)
ScanLinesActionWins(raw, lines, k, acc) ==
    IF k > Len(lines) THEN acc
    ELSE LET trimmed == Trim(lines[k]) IN
        IF StartsWith(trimmed, MThought)
        THEN ScanLinesActionWins(raw, lines, k + 1,
                [acc EXCEPT !.thought = Trim(SliceMarker(trimmed))])
        ELSE IF StartsWith(trimmed, MAction) /\ ~StartsWith(trimmed, MActionInput)
        THEN ScanLinesActionWins(raw, lines, k + 1,
                [acc EXCEPT !.action = Trim(SliceMarker(trimmed))])
        ELSE IF StartsWith(trimmed, MActionInput)
        THEN LET rest == Trim(SliceMarker(trimmed))
                 inputLines == InputLines(lines, k + 1, <<rest>>)
             IN ScanLinesActionWins(raw, lines, k + 1,
                    [acc EXCEPT !.actionInput = Trim(Join(inputLines, <<NL>>))])
        ELSE IF StartsWith(trimmed, MFinalAnswer) /\ acc.action = <<>>
        THEN LET idx == IndexOf(raw, MFinalAnswer) IN
                [acc EXCEPT !.finalAnswer = Trim(SliceAfter(raw, idx))]
        ELSE ScanLinesActionWins(raw, lines, k + 1, acc)

\* ScanLines keeping the first thought and the first action: a later
\* Thought or Action line does not overwrite
RECURSIVE ScanLinesFirstWins(_, _, _, _)
ScanLinesFirstWins(raw, lines, k, acc) ==
    IF k > Len(lines) THEN acc
    ELSE LET trimmed == Trim(lines[k]) IN
        IF StartsWith(trimmed, MThought)
        THEN ScanLinesFirstWins(raw, lines, k + 1,
                IF acc.thought = <<>>
                THEN [acc EXCEPT !.thought = Trim(SliceMarker(trimmed))]
                ELSE acc)
        ELSE IF StartsWith(trimmed, MAction) /\ ~StartsWith(trimmed, MActionInput)
        THEN ScanLinesFirstWins(raw, lines, k + 1,
                IF acc.action = <<>>
                THEN [acc EXCEPT !.action = Trim(SliceMarker(trimmed))]
                ELSE acc)
        ELSE IF StartsWith(trimmed, MActionInput)
        THEN LET rest == Trim(SliceMarker(trimmed))
                 inputLines == InputLines(lines, k + 1, <<rest>>)
             IN ScanLinesFirstWins(raw, lines, k + 1,
                    [acc EXCEPT !.actionInput = Trim(Join(inputLines, <<NL>>))])
        ELSE IF StartsWith(trimmed, MFinalAnswer)
        THEN LET idx == IndexOf(raw, MFinalAnswer) IN
                [acc EXCEPT !.finalAnswer = Trim(SliceAfter(raw, idx))]
        ELSE ScanLinesFirstWins(raw, lines, k + 1, acc)

\* ScanLines taking the text after the Final Answer marker as it is, without
\* the trim
RECURSIVE ScanLinesUntrimmedAnswer(_, _, _, _)
ScanLinesUntrimmedAnswer(raw, lines, k, acc) ==
    IF k > Len(lines) THEN acc
    ELSE LET trimmed == Trim(lines[k]) IN
        IF StartsWith(trimmed, MThought)
        THEN ScanLinesUntrimmedAnswer(raw, lines, k + 1,
                [acc EXCEPT !.thought = Trim(SliceMarker(trimmed))])
        ELSE IF StartsWith(trimmed, MAction) /\ ~StartsWith(trimmed, MActionInput)
        THEN ScanLinesUntrimmedAnswer(raw, lines, k + 1,
                [acc EXCEPT !.action = Trim(SliceMarker(trimmed))])
        ELSE IF StartsWith(trimmed, MActionInput)
        THEN LET rest == Trim(SliceMarker(trimmed))
                 inputLines == InputLines(lines, k + 1, <<rest>>)
             IN ScanLinesUntrimmedAnswer(raw, lines, k + 1,
                    [acc EXCEPT !.actionInput = Trim(Join(inputLines, <<NL>>))])
        ELSE IF StartsWith(trimmed, MFinalAnswer)
        THEN LET idx == IndexOf(raw, MFinalAnswer) IN
                [acc EXCEPT !.finalAnswer = SliceAfter(raw, idx)]
        ELSE ScanLinesUntrimmedAnswer(raw, lines, k + 1, acc)

\* ScanLines keeping an input only for the action it follows: every Action
\* line clears the input assigned so far
RECURSIVE ScanLinesInputOfAction(_, _, _, _)
ScanLinesInputOfAction(raw, lines, k, acc) ==
    IF k > Len(lines) THEN acc
    ELSE LET trimmed == Trim(lines[k]) IN
        IF StartsWith(trimmed, MThought)
        THEN ScanLinesInputOfAction(raw, lines, k + 1,
                [acc EXCEPT !.thought = Trim(SliceMarker(trimmed))])
        ELSE IF StartsWith(trimmed, MAction) /\ ~StartsWith(trimmed, MActionInput)
        THEN ScanLinesInputOfAction(raw, lines, k + 1,
                [acc EXCEPT !.action = Trim(SliceMarker(trimmed)),
                            !.actionInput = <<>>])
        ELSE IF StartsWith(trimmed, MActionInput)
        THEN LET rest == Trim(SliceMarker(trimmed))
                 inputLines == InputLines(lines, k + 1, <<rest>>)
             IN ScanLinesInputOfAction(raw, lines, k + 1,
                    [acc EXCEPT !.actionInput = Trim(Join(inputLines, <<NL>>))])
        ELSE IF StartsWith(trimmed, MFinalAnswer)
        THEN LET idx == IndexOf(raw, MFinalAnswer) IN
                [acc EXCEPT !.finalAnswer = Trim(SliceAfter(raw, idx))]
        ELSE ScanLinesInputOfAction(raw, lines, k + 1, acc)

\* the outer loop from line k on, acc holding thought, action, actionInput
\* and finalAnswer as assigned so far
RECURSIVE ScanLines(_, _, _, _)
ScanLines(raw, lines, k, acc) ==
    IF k > Len(lines) THEN acc
    ELSE LET trimmed == Trim(lines[k]) IN
        IF StartsWith(trimmed, MThought)
        THEN ScanLines(raw, lines, k + 1,
                [acc EXCEPT !.thought = Trim(SliceMarker(trimmed))])
        ELSE IF StartsWith(trimmed, MAction) /\ ~StartsWith(trimmed, MActionInput)
        THEN ScanLines(raw, lines, k + 1,
                [acc EXCEPT !.action = Trim(SliceMarker(trimmed))])
        ELSE IF StartsWith(trimmed, MActionInput)
        THEN LET rest == Trim(SliceMarker(trimmed))
                 inputLines == InputLines(lines, k + 1, <<rest>>)
             IN ScanLines(raw, lines, k + 1,
                    [acc EXCEPT !.actionInput = Trim(Join(inputLines, <<NL>>))])
        ELSE IF StartsWith(trimmed, MFinalAnswer)
        THEN LET idx == IndexOf(raw, MFinalAnswer) IN
                [acc EXCEPT !.finalAnswer = Trim(SliceAfter(raw, idx))]
        ELSE ScanLines(raw, lines, k + 1, acc)

\* value || undefined
OrUndefined(s) == IF s = <<>> THEN Undefined ELSE s

parseAgentResponse(raw) ==
    LET acc == ScanLines(raw, Split(raw), 1,
                   [thought |-> <<>>, action |-> <<>>,
                    actionInput |-> <<>>, finalAnswer |-> <<>>])
    IN [thought |-> acc.thought,
        action |-> OrUndefined(acc.action),
        actionInput |-> OrUndefined(acc.actionInput),
        finalAnswer |-> OrUndefined(acc.finalAnswer)]

NotParsed ==
    [thought |-> Undefined, action |-> Undefined,
     actionInput |-> Undefined, finalAnswer |-> Undefined]

----------------------------------------------------------------------------
(* The parser on its own: every text of the bounded sets is parsed *)

RECURSIVE SeqsUpTo(_, _)
SeqsUpTo(S, n) ==
    IF n = 0 THEN {<<>>}
    ELSE LET shorter == SeqsUpTo(S, n - 1) IN
        shorter \cup {Append(s, c) : s \in shorter, c \in S}

\* lines with every marker at the start, after leading blanks and in the
\* middle, with and without a payload, and lines without a marker
SampleLines ==
    { <<>>, <<"x">>, <<SP, "y", SP>>,
      <<MThought, SP, "x">>, <<MThought, "y">>,
      <<MAction, SP, "x">>, <<SP, MAction, "y", SP>>, <<MAction>>,
      <<MActionInput, SP, "x">>, <<MActionInput>>, <<SP, MActionInput, "y">>,
      <<MFinalAnswer, SP, "x">>, <<MFinalAnswer, SP>>, <<SP, MFinalAnswer, "y">>,
      <<"x", MFinalAnswer, "y">>, <<MObservation, "x">> }

ShortTexts == SeqsUpTo(Alphabet, MaxLen)
LineTexts == {Join(ls, <<NL>>) : ls \in SeqsUpTo(SampleLines, MaxLines) \ {<<>>}}
Texts == ShortTexts \cup LineTexts

----------------------------------------------------------------------------
(* The environment of a run *)

\* PROVIDERS: the catalog, in its key order
ProviderKeys == <<"anthropic", "openai", "gemini">>
ProviderName(key) ==
    CASE key = "anthropic" -> "Anthropic"
      [] key = "openai" -> "OpenAI"
      [] key = "gemini" -> "Google"
FirstModelLabel(key) ==
    CASE key = "anthropic" -> "Haiku 4.5"
      [] key = "openai" -> "GPT-4o Mini"
      [] key = "gemini" -> "Gemini 2.0 Flash"

\* what getAvailableProviders() can return: the keyed providers, in catalog order
AvailableProviderLists == {<<>>, <<"anthropic">>, <<"openai", "gemini">>}

\* `${agentModel.label} (${providerCfg.name})` for availableProviders[0]
ProviderLabel(avail) ==
    <<FirstModelLabel(avail[1]), " (", ProviderName(avail[1]), ")">>

ToolX == [name |-> <<"x">>, description |-> <<"dx">>]
ToolY == [name |-> <<"y">>, description |-> <<"dy">>]
ToolX2 == [name |-> <<"x">>, description |-> <<"dx2">>]
ToolSets == {<<>>, <<ToolX>>, <<ToolX, ToolY>>, <<ToolX, ToolX2>>}

\* what a tool's execute resolves to, and the messages it rejects with
ToolOutputs == {<<"out">>}
ToolErrors == {<<"boom">>}

Goal == <<"goal">>
Contexts == {Undefined, <<"ctx">>}

\* the replies of the completion provider
Replies ==
    { <<>>,
      <<"x">>,
      <<MThought, SP, "x", NL, MFinalAnswer, SP, "y">>,
      <<MThought, SP, "x", NL, MAction, SP, "x", NL, MActionInput, SP, "y">>,
      <<MAction, SP, "y", NL, MActionInput, SP>>,
      <<MAction, SP, "x", "y">>,
      <<MAction, SP, "x", NL, MFinalAnswer, SP, "y">>,
      <<MAction, SP, "x", NL, MFinalAnswer, SP>>,
      <<MFinalAnswer>>,
      <<"x", SP, MFinalAnswer, SP, "y">>,
      <<MAction, SP, "x", NL, MActionInput, SP, "x", NL, "y", NL, MAction, SP, "y">>,
      <<MActionInput, SP, "x", NL, MAction, SP, "x", NL,
        MActionInput, SP, "y", NL, MAction, SP, "y">> }

----------------------------------------------------------------------------
(* runAgent *)

buildAgentSystemPrompt(ts) ==
    <<"You are a benchmark analysis agent. [...] Available tools:", NL>>
    \o Join([k \in 1..Len(ts) |->
                <<SP, SP>> \o ts[k].name \o <<":", SP>> \o ts[k].description],
            <<NL>>)
    \o <<NL, NL, "Format (exactly): [...] Do NOT combine Action and Final Answer">>

\* FindTool falling back to the first tool when none has the name
FindToolOrFirst(ts, name) ==
    IF \E k \in 1..Len(ts) : ts[k].name = name
    THEN CHOOSE k \in 1..Len(ts) :
            ts[k].name = name /\ \A m \in 1..(k - 1) : ts[m].name # name
    ELSE IF ts # <<>> THEN 1 ELSE 0

\* tools.find((t) => t.name === name): the first tool of that name, 0 for none
FindTool(ts, name) ==
    IF \E k \in 1..Len(ts) : ts[k].name = name
    THEN CHOOSE k \in 1..Len(ts) :
            ts[k].name = name /\ \A m \in 1..(k - 1) : ts[m].name # name
    ELSE 0

\* ToolNames listing the descriptions of the tools
ToolDescriptions(ts) ==
    Join([k \in 1..Len(ts) |-> ts[k].description], <<", ">>)

\* tools.map((t) => t.name).join(", ")
ToolNames(ts) == Join([k \in 1..Len(ts) |-> ts[k].name], <<", ">>)

\* value || ""
OrEmpty(v) == IF v = Undefined THEN <<>> ELSE v

\* DistinctActions without the Set: every action, repeated ones included
RECURSIVE AllActions(_, _)
AllActions(st, seen) ==
    IF st = <<>> THEN <<>>
    ELSE <<Head(st).action>> \o AllActions(Tail(st), seen)

\* DistinctActions over the Steps whose tool ran to its end only: a Step of
\* an unknown tool or of a failed tool is left out
RECURSIVE DistinctActionsSucceeded(_, _)
DistinctActionsSucceeded(st, seen) ==
    IF st = <<>> THEN <<>>
    ELSE IF \/ Head(st).action \in seen
            \/ Head(Head(st).observation) \in {"Unknown tool: ", "Tool error: "}
         THEN DistinctActionsSucceeded(Tail(st), seen)
    ELSE <<Head(st).action>>
         \o DistinctActionsSucceeded(Tail(st), seen \cup {Head(st).action})

\* [...new Set(steps.map((s) => s.action))]: first occurrences, in order
RECURSIVE DistinctActions(_, _)
DistinctActions(st, seen) ==
    IF st = <<>> THEN <<>>
    ELSE IF Head(st).action \in seen THEN DistinctActions(Tail(st), seen)
    ELSE <<Head(st).action>>
         \o DistinctActions(Tail(st), seen \cup {Head(st).action})

NoToolsAnswer ==
    <<"Agent reached ", "maximum steps", " without executing tools.">>

\* SummaryAnswer without the case of an empty step trace
SummaryAnswerNoEmptyCase(st) ==
    <<"Agent completed ", ToString(Len(st)), " steps. Tools used: ">>
    \o Join(DistinctActions(st, {}), <<", ">>) \o <<".">>

\* the finalAnswer of the return after the loop
SummaryAnswer(st) ==
    IF Len(st) > 0
    THEN <<"Agent completed ", ToString(Len(st)), " steps. Tools used: ">>
         \o Join(DistinctActions(st, {}), <<", ">>) \o <<".">>
    ELSE NoToolsAnswer

NoResult == [kind |-> "none"]
ConfigError ==
    [kind |-> "error",
     message |-> "No LLM provider configured. Set ANTHROPIC_API_KEY, OPENAI_API_KEY, or GEMINI_API_KEY."]
ProviderError == [kind |-> "error", message |-> "completion call failed"]

\* AgentResult with totalSteps taken from the number of Steps
AgentResultCountingSteps(st, answer, total) ==
    [kind |-> "result", steps |-> st, finalAnswer |-> answer,
     totalSteps |-> Len(st), provider |-> ProviderLabel(providers)]

\* the object both returns of runAgent build
AgentResult(st, answer, total) ==
    [kind |-> "result", steps |-> st, finalAnswer |-> answer,
     totalSteps |-> total, provider |-> ProviderLabel(providers)]

\* LoopTest with the latest message of the transcript folded into the
\* system prompt of the call
LoopTestPromptGrows(k, st, msgs, prompt, cs) ==
    /\ i' = k
    /\ steps' = st
    /\ messages' = msgs
    /\ IF k < maxSteps
       THEN /\ pc' = "awaitCompletion"
            /\ calls' = Append(cs, [iteration |-> k,
                                    systemPrompt |-> prompt \o msgs[Len(msgs)].content,
                                    messages |-> msgs, outcome |-> "pending",
                                    reply |-> Undefined])
            /\ result' = result
       ELSE /\ pc' = "returned"
            /\ calls' = cs
            /\ result' = AgentResult(st, SummaryAnswer(st), maxSteps)

\* LoopTest with only the latest message handed to the completion call
LoopTestLatestMessageOnly(k, st, msgs, prompt, cs) ==
    /\ i' = k
    /\ steps' = st
    /\ messages' = msgs
    /\ IF k < maxSteps
       THEN /\ pc' = "awaitCompletion"
            /\ calls' = Append(cs, [iteration |-> k, systemPrompt |-> prompt,
                                    messages |-> <<msgs[Len(msgs)]>>,
                                    outcome |-> "pending", reply |-> Undefined])
            /\ result' = result
       ELSE /\ pc' = "returned"
            /\ calls' = cs
            /\ result' = AgentResult(st, SummaryAnswer(st), maxSteps)

\* LoopTest with the loop condition i <= maxSteps
LoopTestInclusive(k, st, msgs, prompt, cs) ==
    /\ i' = k
    /\ steps' = st
    /\ messages' = msgs
    /\ IF k <= maxSteps
       THEN /\ pc' = "awaitCompletion"
            /\ calls' = Append(cs, [iteration |-> k, systemPrompt |-> prompt,
                                    messages |-> msgs, outcome |-> "pending",
                                    reply |-> Undefined])
            /\ result' = result
       ELSE /\ pc' = "returned"
            /\ calls' = cs
            /\ result' = AgentResult(st, SummaryAnswer(st), maxSteps)

\* LoopTest with the condition tested after the body (a do-while loop)
LoopTestDoWhile(k, st, msgs, prompt, cs) ==
    /\ i' = k
    /\ steps' = st
    /\ messages' = msgs
    /\ IF k = 0 \/ k < maxSteps
       THEN /\ pc' = "awaitCompletion"
            /\ calls' = Append(cs, [iteration |-> k, systemPrompt |-> prompt,
                                    messages |-> msgs, outcome |-> "pending",
                                    reply |-> Undefined])
            /\ result' = result
       ELSE /\ pc' = "returned"
            /\ calls' = cs
            /\ result' = AgentResult(st, SummaryAnswer(st), maxSteps)

\* the loop condition: with counter k, either the next completion call is
\* issued or the loop is over and the summary is returned
\* (cs: the completion calls made so far)
LoopTest(k, st, msgs, prompt, cs) ==
    /\ i' = k
    /\ steps' = st
    /\ messages' = msgs
    /\ IF k < maxSteps
       THEN /\ pc' = "awaitCompletion"
            /\ calls' = Append(cs, [iteration |-> k, systemPrompt |-> prompt,
                                    messages |-> msgs, outcome |-> "pending",
                                    reply |-> Undefined])
            /\ result' = result
       ELSE /\ pc' = "returned"
            /\ calls' = cs
            /\ result' = AgentResult(st, SummaryAnswer(st), maxSteps)

\* the last entry of a call history marked with how the call resolved
Resolved(log, how) == [log EXCEPT ![Len(log)].outcome = how]

\* the last completion call marked as answered with the text reply
Answered(log, reply) ==
    [log EXCEPT ![Len(log)].outcome = "replied", ![Len(log)].reply = reply]

\* the last execute call marked with how it ended and with what: the text
\* it resolved to, or the message of the Error it threw
Settled(log, how, value) ==
    [log EXCEPT ![Len(log)].outcome = how, ![Len(log)].value = value]

\* RecordStep without the i++ of the loop
RecordStepNoIncrement(p, msgs, observation, cs) ==
    LoopTest(i,
             Append(steps, [thought |-> p.thought,
                            action |-> p.action,
                            actionInput |-> OrEmpty(p.actionInput),
                            observation |-> observation]),
             Append(msgs, [role |-> "user",
                           content |-> <<MObservation, SP>> \o observation
                                       \o <<NL, NL, "Continue.">>]),
             systemPrompt, cs)

\* RecordStep without the messages.push of the observation
RecordStepNoObservationMessage(p, msgs, observation, cs) ==
    LoopTest(i + 1,
             Append(steps, [thought |-> p.thought,
                            action |-> p.action,
                            actionInput |-> OrEmpty(p.actionInput),
                            observation |-> observation]),
             msgs,
             systemPrompt, cs)

\* RecordStep with the Step pushed only for a tool of the tool set
RecordStepKnownOnly(p, msgs, observation, cs) ==
    LoopTest(i + 1,
             IF FindTool(tools, p.action) # 0
             THEN Append(steps, [thought |-> p.thought,
                                 action |-> p.action,
                                 actionInput |-> OrEmpty(p.actionInput),
                                 observation |-> observation])
             ELSE steps,
             Append(msgs, [role |-> "user",
                           content |-> <<MObservation, SP>> \o observation
                                       \o <<NL, NL, "Continue.">>]),
             systemPrompt, cs)

\* RecordStep recording parsed.actionInput as it is, undefined when the
\* reply has no input
RecordStepRawInput(p, msgs, observation, cs) ==
    LoopTest(i + 1,
             Append(steps, [thought |-> p.thought,
                            action |-> p.action,
                            actionInput |-> p.actionInput,
                            observation |-> observation]),
             Append(msgs, [role |-> "user",
                           content |-> <<MObservation, SP>> \o observation
                                       \o <<NL, NL, "Continue.">>]),
             systemPrompt, cs)

\* steps.push of the directive p with its observation, messages.push of the
\* observation, i++
RecordStep(p, msgs, observation, cs) ==
    LoopTest(i + 1,
             Append(steps, [thought |-> p.thought,
                            action |-> p.action,
                            actionInput |-> OrEmpty(p.actionInput),
                            observation |-> observation]),
             Append(msgs, [role |-> "user",
                           content |-> <<MObservation, SP>> \o observation
                                       \o <<NL, NL, "Continue.">>]),
             systemPrompt, cs)

\* Start without the check of availableProviders.length: with no provider,
\* PROVIDERS[undefined].models raises a TypeError
StartNoProviderCheck ==
    /\ pc = "start"
    /\ UNCHANGED <<text, parsed, providers, tools, context, maxSteps, other, focus, benchVars, toolLog>>
    /\ IF Len(providers) = 0
       THEN /\ pc' = "raised"
            /\ result' = [kind |-> "error", message |-> "TypeError"]
            /\ UNCHANGED <<i, messages, steps, systemPrompt, calls>>
       ELSE LET prompt == buildAgentSystemPrompt(tools)
            IN /\ systemPrompt' = prompt
               /\ LoopTest(0, <<>>,
                     <<[role |-> "user",
                        content |-> <<"Goal: ">> \o Goal \o <<NL, NL, "Begin.">>]>>,
                     prompt, calls)

\* from the entry of runAgent to the first completion call
Start ==
    /\ pc = "start"
    /\ UNCHANGED <<text, parsed, providers, tools, context, maxSteps, other, focus, benchVars, toolLog>>
    /\ IF Len(providers) = 0
       THEN /\ pc' = "raised"
            /\ result' = ConfigError
            /\ UNCHANGED <<i, messages, steps, systemPrompt, calls>>
       ELSE LET contextBlock == IF context # Undefined /\ context # <<>>
                                THEN <<NL, NL, "Context:", NL>> \o context
                                ELSE <<>>
                prompt == buildAgentSystemPrompt(tools)
            IN /\ systemPrompt' = prompt
               /\ LoopTest(0, <<>>,
                     <<[role |-> "user",
                        content |-> <<"Goal: ">> \o Goal \o contextBlock
                                    \o <<NL, NL, "Begin.">>]>>,
                     prompt, calls)

\* CompletionReturns without the await of tool.execute: the promise itself
\* becomes the observation and the loop goes on while the tool runs
CompletionReturnsNoAwait(reply) ==
    /\ pc = "awaitCompletion"
    /\ UNCHANGED <<providers, tools, context, maxSteps, other, focus, benchVars, systemPrompt>>
    /\ LET msgs == Append(messages, [role |-> "assistant", content |-> reply])
           p == parseAgentResponse(reply)
           tool == FindTool(tools, p.action)
       IN /\ text' = reply
          /\ parsed' = p
          /\ IF p.finalAnswer # Undefined
             THEN /\ pc' = "returned"
                  /\ result' = AgentResult(steps, p.finalAnswer, i + 1)
                  /\ messages' = msgs
                  /\ calls' = Answered(calls, reply)
                  /\ UNCHANGED <<i, steps, toolLog>>
             ELSE IF p.action # Undefined
             THEN IF tool # 0
                  THEN /\ toolLog' = Append(toolLog,
                              [iteration |-> i, tool |-> tool,
                               input |-> OrEmpty(p.actionInput),
                               outcome |-> "pending", value |-> Undefined])
                       /\ RecordStep(p, msgs, <<"[object Promise]">>,
                              Answered(calls, reply))
                  ELSE /\ toolLog' = toolLog
                       /\ RecordStep(p, msgs,
                              <<"Unknown tool: ">> \o p.action
                              \o <<". Available: ">> \o ToolNames(tools),
                              Answered(calls, reply))
             ELSE /\ toolLog' = toolLog
                  /\ LoopTest(i + 1, steps,
                         Append(msgs, [role |-> "user",
                                       content |-> <<"Use a tool or provide Final Answer.">>]),
                         systemPrompt, Answered(calls, reply))

\* CompletionReturns with the test of parsed.action before the test of
\* parsed.finalAnswer
CompletionReturnsActionFirst(reply) ==
    /\ pc = "awaitCompletion"
    /\ UNCHANGED <<providers, tools, context, maxSteps, other, focus, benchVars, systemPrompt>>
    /\ LET msgs == Append(messages, [role |-> "assistant", content |-> reply])
           p == parseAgentResponse(reply)
           tool == FindTool(tools, p.action)
       IN /\ text' = reply
          /\ parsed' = p
          /\ IF p.action # Undefined
             THEN IF tool # 0
                  THEN /\ pc' = "awaitTool"
                       /\ messages' = msgs
                       /\ calls' = Answered(calls, reply)
                       /\ toolLog' = Append(toolLog,
                              [iteration |-> i, tool |-> tool,
                               input |-> OrEmpty(p.actionInput),
                               outcome |-> "pending", value |-> Undefined])
                       /\ UNCHANGED <<i, steps, result>>
                  ELSE /\ toolLog' = toolLog
                       /\ RecordStep(p, msgs,
                              <<"Unknown tool: ">> \o p.action
                              \o <<". Available: ">> \o ToolNames(tools),
                              Answered(calls, reply))
             ELSE IF p.finalAnswer # Undefined
             THEN /\ pc' = "returned"
                  /\ result' = AgentResult(steps, p.finalAnswer, i + 1)
                  /\ messages' = msgs
                  /\ calls' = Answered(calls, reply)
                  /\ UNCHANGED <<i, steps, toolLog>>
             ELSE /\ toolLog' = toolLog
                  /\ LoopTest(i + 1, steps,
                         Append(msgs, [role |-> "user",
                                       content |-> <<"Use a tool or provide Final Answer.">>]),
                         systemPrompt, Answered(calls, reply))

\* the completion call resolves with response.text = reply
CompletionReturns(reply) ==
    /\ pc = "awaitCompletion"
    /\ UNCHANGED <<providers, tools, context, maxSteps, other, focus, benchVars, systemPrompt>>
    /\ LET msgs == Append(messages, [role |-> "assistant", content |-> reply])
           p == parseAgentResponse(reply)
           tool == FindTool(tools, p.action)
       IN /\ text' = reply
          /\ parsed' = p
          /\ IF p.finalAnswer # Undefined
             THEN /\ pc' = "returned"
                  /\ result' = AgentResult(steps, p.finalAnswer, i + 1)
                  /\ messages' = msgs
                  /\ calls' = Answered(calls, reply)
                  /\ UNCHANGED <<i, steps, toolLog>>
             ELSE IF p.action # Undefined
             THEN IF tool # 0
                  THEN /\ pc' = "awaitTool"
                       /\ messages' = msgs
                       /\ calls' = Answered(calls, reply)
                       /\ toolLog' = Append(toolLog,
                              [iteration |-> i, tool |-> tool,
                               input |-> OrEmpty(p.actionInput),
                               outcome |-> "pending", value |-> Undefined])
                       /\ UNCHANGED <<i, steps, result>>
                  ELSE /\ toolLog' = toolLog
                       /\ RecordStep(p, msgs,
                              <<"Unknown tool: ">> \o p.action
                              \o <<". Available: ">> \o ToolNames(tools),
                              Answered(calls, reply))
             ELSE /\ toolLog' = toolLog
                  /\ LoopTest(i + 1, steps,
                         Append(msgs, [role |-> "user",
                                       content |-> <<"Use a tool or provide Final Answer.">>]),
                         systemPrompt, Answered(calls, reply))

\* CompletionFails with the rejection caught and the loop continued
CompletionFailsRecovered ==
    /\ pc = "awaitCompletion"
    /\ UNCHANGED <<text, parsed, providers, tools, context, maxSteps, other, focus, benchVars,
                   systemPrompt, toolLog>>
    /\ LoopTest(i + 1, steps,
          Append(messages, [role |-> "user",
                            content |-> <<"Use a tool or provide Final Answer.">>]),
          systemPrompt, Resolved(calls, "failed"))

\* the completion call rejects: nothing in runAgent catches it
CompletionFails ==
    /\ pc = "awaitCompletion"
    /\ pc' = "raised"
    /\ result' = ProviderError
    /\ calls' = Resolved(calls, "failed")
    /\ UNCHANGED <<text, parsed, providers, tools, context, maxSteps, other, focus, benchVars, i, messages,
                   steps, systemPrompt, toolLog>>

\* tool.execute resolves with out
ToolReturns(out) ==
    /\ pc = "awaitTool"
    /\ UNCHANGED <<text, parsed, providers, tools, context, maxSteps, other, focus, benchVars, systemPrompt>>
    /\ toolLog' = Settled(toolLog, "returned", out)
    /\ RecordStep(parsed, messages, out, calls)

\* ToolThrows without the try/catch around tool.execute
ToolThrowsUncaught(err) ==
    /\ pc = "awaitTool"
    /\ pc' = "raised"
    /\ result' = [kind |-> "error", message |-> err]
    /\ toolLog' = Settled(toolLog, "threw", err)
    /\ UNCHANGED <<text, parsed, providers, tools, context, maxSteps, other, focus, benchVars, i, messages,
                   steps, systemPrompt, calls>>

\* ToolThrows with the failed tool invoked once more in the same iteration
ToolThrowsRetry(err) ==
    /\ pc = "awaitTool"
    /\ UNCHANGED <<text, parsed, providers, tools, context, maxSteps, other, focus, benchVars, systemPrompt>>
    /\ IF \E k \in 1..(Len(toolLog) - 1) : toolLog[k].iteration = i
       THEN /\ toolLog' = Settled(toolLog, "threw", err)
            /\ RecordStep(parsed, messages, <<"Tool error: ">> \o err, calls)
       ELSE /\ toolLog' = Append(Settled(toolLog, "threw", err), toolLog[Len(toolLog)])
            /\ UNCHANGED <<pc, i, messages, steps, result, calls>>

\* ToolThrows with the name of the tool put into the observation
ToolThrowsNamed(err) ==
    /\ pc = "awaitTool"
    /\ UNCHANGED <<text, parsed, providers, tools, context, maxSteps, other, focus, benchVars, systemPrompt>>
    /\ toolLog' = Settled(toolLog, "threw", err)
    /\ RecordStep(parsed, messages,
                  <<"Tool error (">> \o parsed.action \o <<"): ">> \o err, calls)

\* tool.execute throws or rejects with an Error of message err
ToolThrows(err) ==
    /\ pc = "awaitTool"
    /\ UNCHANGED <<text, parsed, providers, tools, context, maxSteps, other, focus, benchVars, systemPrompt>>
    /\ toolLog' = Settled(toolLog, "threw", err)
    /\ RecordStep(parsed, messages, <<"Tool error: ">> \o err, calls)

----------------------------------------------------------------------------
(* The provider catalog and its look-ups (providers.ts).  A string that the
   code compares character by character is a sequence of its characters;
   costs are in millionths of a dollar per 1K tokens. *)

\* Object.entries(PROVIDERS), in key order
PROVIDERS ==
    <<[key |-> "anthropic", name |-> "Anthropic", envKey |-> "ANTHROPIC_API_KEY",
       models |->
        <<[id |-> <<"c", "l", "a", "u", "d", "e", "-", "h", "a", "i", "k", "u", "-", "4",
                  "-", "5", "-", "2", "0", "2", "5", "1", "0", "0",
                  "1">>,
           label |-> <<"H", "a", "i", "k", "u", " ", "4", ".", "5">>,
           inputCost |-> 1000, outputCost |-> 5000],
          [id |-> <<"c", "l", "a", "u", "d", "e", "-", "s", "o", "n", "n", "e", "t", "-",
                  "4", "-", "5", "-", "2", "0", "2", "5", "0", "9",
                  "2", "9">>,
           label |-> <<"S", "o", "n", "n", "e", "t", " ", "4", ".", "5">>,
           inputCost |-> 3000, outputCost |-> 15000]>>],
      [key |-> "openai", name |-> "OpenAI", envKey |-> "OPENAI_API_KEY",
       models |->
        <<[id |-> <<"g", "p", "t", "-", "4", "o", "-", "m", "i", "n", "i">>,
           label |-> <<"G", "P", "T", "-", "4", "o", " ", "M", "i", "n", "i">>,
           inputCost |-> 150, outputCost |-> 600],
          [id |-> <<"g", "p", "t", "-", "4", "o">>,
           label |-> <<"G", "P", "T", "-", "4", "o">>,
           inputCost |-> 2500, outputCost |-> 10000]>>],
      [key |-> "gemini", name |-> "Google", envKey |-> "GEMINI_API_KEY",
       models |->
        <<[id |-> <<"g", "e", "m", "i", "n", "i", "-", "2", ".", "0", "-", "f", "l", "a",
                  "s", "h">>,
           label |-> <<"G", "e", "m", "i", "n", "i", " ", "2", ".", "0", " ", "F", "l", "a",
                     "s", "h">>,
           inputCost |-> 0, outputCost |-> 0]>>]>>

UpperCase ==
    <<"A", "B", "C", "D", "E", "F", "G", "H", "I", "J", "K", "L", "M",
      "N", "O", "P", "Q", "R", "S", "T", "U", "V", "W", "X", "Y", "Z">>
LowerCase ==
    <<"a", "b", "c", "d", "e", "f", "g", "h", "i", "j", "k", "l", "m",
      "n", "o", "p", "q", "r", "s", "t", "u", "v", "w", "x", "y", "z">>

\* String.prototype.toLowerCase
ToLowerCase(s) ==
    [k \in 1..Len(s) |->
        IF \E j \in 1..26 : UpperCase[j] = s[k]
        THEN LowerCase[CHOOSE j \in 1..26 : UpperCase[j] = s[k]]
        ELSE s[k]]

\* s.replace(/\s+/g, "-"): every run of whitespace becomes one hyphen
RECURSIVE ReplaceSpaces(_)
ReplaceSpaces(s) ==
    IF s = <<>> THEN <<>>
    ELSE IF Head(s) \in Whitespace
    THEN IF Len(s) > 1 /\ s[2] \in Whitespace
         THEN ReplaceSpaces(Tail(s))
         ELSE <<"-">> \o ReplaceSpaces(Tail(s))
    ELSE <<Head(s)>> \o ReplaceSpaces(Tail(s))

\* s.startsWith(q)
StartsWithText(s, q) == Len(q) <= Len(s) /\ SubSeq(s, 1, Len(q)) = q

\* the test of resolveModel's inner loop
ModelMatches(model, q) ==
    \/ ToLowerCase(model.id) = q
    \/ ToLowerCase(model.label) = q
    \/ ReplaceSpaces(ToLowerCase(model.label)) = q
    \/ StartsWithText(ToLowerCase(model.id), q)
    \/ StartsWithText(ToLowerCase(model.label), q)

\* { ...model, provider: key, providerName: cfg.name }
WithProvider(model, cfg) ==
    [id |-> model.id, label |-> model.label, inputCost |-> model.inputCost,
     outputCost |-> model.outputCost, provider |-> cfg.key,
     providerName |-> cfg.name]

\* the catalog's models in catalog order, each with its provider
RECURSIVE ModelsFrom(_)
ModelsFrom(cfgs) ==
    IF cfgs = <<>> THEN <<>>
    ELSE [k \in 1..Len(Head(cfgs).models) |->
             WithProvider(Head(cfgs).models[k], Head(cfgs))]
         \o ModelsFrom(Tail(cfgs))

\* resolveModel: the first model of the catalog that matches the query
\* undefined where a model entry is expected: a record, so that it compares
\* with the entries
UndefinedEntry == [id |-> Undefined, label |-> Undefined]

resolveModel(query) ==
    LET q == ToLowerCase(query)
        all == ModelsFrom(PROVIDERS)
        hits == {k \in 1..Len(all) : ModelMatches(all[k], q)}
    IN IF hits = {} THEN UndefinedEntry
       ELSE all[CHOOSE k \in hits : \A m \in hits : k <= m]


\* the names of the environment variables of the catalog
EnvKeys == {PROVIDERS[p].envKey : p \in 1..Len(PROVIDERS)}

\* the provider keys of the catalog
CatalogKeys == {PROVIDERS[p].key : p \in 1..Len(PROVIDERS)}

\* a JavaScript string in a condition: undefined and "" are falsy
Truthy(v) == v # Undefined /\ v # <<>>

\* apiKeys?.[key]
ExplicitKey(apiKeys, key) ==
    IF apiKeys.given THEN apiKeys.keys[key] ELSE Undefined

\* Object.entries(PROVIDERS).filter(...).map(([key]) => key)
getAvailableProvidersAnyValue(apiKeys, processEnv) ==
    LET keep(cfg) ==
            \/ Truthy(ExplicitKey(apiKeys, cfg.key))
            \/ processEnv[cfg.envKey] # Undefined
        kept == SelectSeq(PROVIDERS, keep)
    IN [k \in 1..Len(kept) |-> kept[k].key]

getAvailableProviders(apiKeys, processEnv) ==
    LET keep(cfg) ==
            IF Truthy(ExplicitKey(apiKeys, cfg.key)) THEN TRUE
            ELSE Truthy(processEnv[cfg.envKey])
        kept == SelectSeq(PROVIDERS, keep)
    IN [k \in 1..Len(kept) |-> kept[k].key]

\* providerFilter.includes(key)
Includes(list, x) == \E k \in 1..Len(list) : list[k] = x

\* getAllModels(providerFilter) with a filter
getAllModels(providerFilter) ==
    LET listed(cfg) == Includes(providerFilter, cfg.key)
    IN ModelsFrom(SelectSeq(PROVIDERS, listed))

\* PROVIDERS[providerKey]
ConfigOf(providerKey) ==
    PROVIDERS[CHOOSE p \in 1..Len(PROVIDERS) : PROVIDERS[p].key = providerKey]

getApiKey(providerKey, apiKeys, processEnv) ==
    IF Truthy(ExplicitKey(apiKeys, providerKey))
    THEN ExplicitKey(apiKeys, providerKey)
    ELSE IF \A p \in 1..Len(PROVIDERS) : PROVIDERS[p].key # providerKey
    THEN Undefined
    ELSE processEnv[ConfigOf(providerKey).envKey]

----------------------------------------------------------------------------
(* The statistics of the benchmark (benchmark.ts).  A ModelResult is a record
   of model, modelId, provider, promptName, latencyMs, inputTokens,
   outputTokens, costUsd and error (Undefined on a successful row); costs
   are in millionths of a dollar, and a ratio is the pair of its numerator
   and its denominator. *)

RECURSIVE SumOf(_)
SumOf(numbers) ==
    IF numbers = <<>> THEN 0 ELSE Head(numbers) + SumOf(Tail(numbers))

\* Math.round(n / d) for n >= 0 and d > 0
RoundedRatio(n, d) == (2 * n + d) \div (2 * d)

\* the field f of every record of a sequence
FieldOf(rows, f) == [k \in 1..Len(rows) |-> rows[k][f]]

\* Array.prototype.sort with the comparator (a, b) => key(a) - key(b): a
\* stable sort into non-decreasing order of the keys.  StableOrder gives
\* the positions of the list in their order after the sort.
RECURSIVE InsertPosition(_, _, _)
InsertPosition(x, sorted, keys) ==
    IF sorted = <<>> THEN <<x>>
    ELSE IF keys[x] < keys[Head(sorted)]
    THEN <<x>> \o sorted
    ELSE <<Head(sorted)>> \o InsertPosition(x, Tail(sorted), keys)

RECURSIVE StableOrder(_, _)
StableOrder(n, keys) ==
    IF n = 0 THEN <<>>
    ELSE InsertPosition(n, StableOrder(n - 1, keys), keys)

SortedByKey(list, keys) ==
    LET order == StableOrder(Len(list), keys)
    IN [k \in 1..Len(list) |-> list[order[k]]]

percentile(arr, p) ==
    LET sorted == SortedByKey(arr, arr)
        ceil == (p * Len(sorted) + 99) \div 100
        idx == ceil - 1
    IN sorted[(IF idx > 0 THEN idx ELSE 0) + 1]

\* the keys of the Map byModel, in the order of their first insertion
RECURSIVE KeysInOrder(_, _)
KeysInOrder(rows, seen) ==
    IF rows = <<>> THEN <<>>
    ELSE IF Head(rows).model \in seen
    THEN KeysInOrder(Tail(rows), seen)
    ELSE <<Head(rows).model>>
         \o KeysInOrder(Tail(rows), seen \cup {Head(rows).model})

\* the ModelStats of one group of the Map
StatsOf(model, runs) ==
    LET ok(r) == r.error = Undefined
        failed(r) == r.error # Undefined
        latencies == FieldOf(SelectSeq(runs, ok), "latencyMs")
        errors == Len(SelectSeq(runs, failed))
        totalOutput == SumOf(FieldOf(runs, "outputTokens"))
        totalCost == SumOf(FieldOf(runs, "costUsd"))
    IN [model |-> model,
        provider |-> runs[1].provider,
        totalRuns |-> Len(runs),
        avgLatencyMs |-> IF Len(latencies) > 0
                         THEN RoundedRatio(SumOf(latencies), Len(latencies))
                         ELSE 0,
        p50LatencyMs |-> IF Len(latencies) > 0 THEN percentile(latencies, 50)
                         ELSE 0,
        p95LatencyMs |-> IF Len(latencies) > 0 THEN percentile(latencies, 95)
                         ELSE 0,
        p99LatencyMs |-> IF Len(latencies) > 0 THEN percentile(latencies, 99)
                         ELSE 0,
        avgInputTokens |-> RoundedRatio(SumOf(FieldOf(runs, "inputTokens")),
                                        Len(runs)),
        avgOutputTokens |-> RoundedRatio(totalOutput, Len(runs)),
        totalCostUsd |-> totalCost,
        costPer1kTokens |-> IF totalOutput > 0
                            THEN RoundedRatio(totalCost * 1000, totalOutput)
                            ELSE 0,
        errorRate |-> <<errors, Len(runs)>>]

\* the statistics in the order of the Map, before the sort
GroupedStats(rows) ==
    LET keys == KeysInOrder(rows, {})
    IN [k \in 1..Len(keys) |->
           LET inGroup(r) == r.model = keys[k]
           IN StatsOf(keys[k], SelectSeq(rows, inGroup))]

computeStatsUnsorted(rows) ==
    GroupedStats(rows)

computeStats(rows) ==
    LET stats == GroupedStats(rows)
    IN SortedByKey(stats, FieldOf(stats, "avgLatencyMs"))

\* no call of the benchmark library or of the command line
NoOptions == [fn |-> "none"]
NoBenchmark ==
    /\ env = [key \in EnvKeys |-> Undefined]
    /\ options = NoOptions
    /\ bpc = "idle"
    /\ modelsToRun = <<>>
    /\ results = <<>>
    /\ at = <<1, 1>>
    /\ returned = Undefined

\* no second run
NoRun == [pc |-> "none"]

Init ==
    /\ text = <<>>
    /\ parsed = NotParsed
    /\ pc = "start"
    /\ providers \in AvailableProviderLists
    /\ tools \in ToolSets
    /\ context \in Contexts
    /\ maxSteps \in 0..MaxSteps
    /\ i = 0
    /\ messages = <<>>
    /\ steps = <<>>
    /\ systemPrompt = <<>>
    /\ result = NoResult
    /\ calls = <<>>
    /\ toolLog = <<>>
    /\ other = NoRun
    /\ focus = 1
    /\ NoBenchmark

Next ==
    \/ Start
    \/ \E reply \in Replies : CompletionReturns(reply)
    \/ CompletionFails
    \/ \E out \in ToolOutputs : ToolReturns(out)
    \/ \E err \in ToolErrors : ToolThrows(err)

Spec == Init /\ [][Next]_vars

----------------------------------------------------------------------------
(* The parser applied to every text of Texts *)

Parse ==
    /\ parsed = NotParsed
    /\ parsed' = parseAgentResponse(text)
    /\ UNCHANGED <<text, runVars>>

InitParse ==
    /\ text \in Texts
    /\ parsed = NotParsed
    /\ pc = "start"
    /\ providers = <<>>
    /\ tools = <<>>
    /\ context = Undefined
    /\ maxSteps = 0
    /\ i = 0
    /\ messages = <<>>
    /\ steps = <<>>
    /\ systemPrompt = <<>>
    /\ result = NoResult
    /\ calls = <<>>
    /\ toolLog = <<>>
    /\ other = NoRun
    /\ focus = 1
    /\ NoBenchmark

NextParse == Parse

SpecParse == InitParse /\ [][NextParse]_vars

\* runAgent with every outstanding call eventually resolving
SpecFair ==
    /\ Spec
    /\ WF_vars(Start)
    /\ WF_vars((\E reply \in Replies : CompletionReturns(reply)) \/ CompletionFails)
    /\ WF_vars((\E out \in ToolOutputs : ToolReturns(out))
               \/ (\E err \in ToolErrors : ToolThrows(err)))

----------------------------------------------------------------------------
(* Two runs of runAgent in one process.  JavaScript runs one continuation
   at a time: a run keeps the thread from one await to the next, and at an
   await any other run may be resumed.  All of a run's state is local to
   its call of runAgent (options, steps, messages, i, parsed); the runs
   share the environment read by getAvailableProviders. *)

MaxStepsTwo == 2   \* each of the two runs draws maxSteps from 1..MaxStepsTwo

RepliesTwo ==
    { <<MThought, SP, "x", NL, MAction, SP, "x", NL, MActionInput, SP, "y">>,
      <<MAction, SP, "y">>,
      <<MThought, SP, "x", NL, MFinalAnswer, SP, "y">> }

ToolSetsTwo == {<<ToolX>>, <<ToolX, ToolY>>}

\* a call of runAgent that has not run yet
NewRun(ts, budget) ==
    [text |-> <<>>, parsed |-> NotParsed, pc |-> "start", tools |-> ts,
     context |-> Undefined, maxSteps |-> budget, i |-> 0, messages |-> <<>>,
     steps |-> <<>>, systemPrompt |-> <<>>, result |-> NoResult,
     calls |-> <<>>, toolLog |-> <<>>]

\* the run the variables belong to
ThisRun ==
    [text |-> text, parsed |-> parsed, pc |-> pc, tools |-> tools,
     context |-> context, maxSteps |-> maxSteps, i |-> i,
     messages |-> messages, steps |-> steps, systemPrompt |-> systemPrompt,
     result |-> result, calls |-> calls, toolLog |-> toolLog]

\* Switch with steps an array of the module, shared by the two runs
SwitchSharedSteps ==
    /\ other # NoRun
    /\ other' = ThisRun
    /\ focus' = 3 - focus
    /\ text' = other.text
    /\ parsed' = other.parsed
    /\ pc' = other.pc
    /\ tools' = other.tools
    /\ context' = other.context
    /\ maxSteps' = other.maxSteps
    /\ i' = other.i
    /\ messages' = other.messages
    /\ steps' = steps
    /\ systemPrompt' = other.systemPrompt
    /\ result' = other.result
    /\ calls' = other.calls
    /\ toolLog' = other.toolLog
    /\ UNCHANGED <<providers, benchVars>>

\* the running run is suspended at its await (or has ended) and the other
\* run is resumed: each keeps its own options, locals and histories
Switch ==
    /\ other # NoRun
    /\ other' = ThisRun
    /\ focus' = 3 - focus
    /\ text' = other.text
    /\ parsed' = other.parsed
    /\ pc' = other.pc
    /\ tools' = other.tools
    /\ context' = other.context
    /\ maxSteps' = other.maxSteps
    /\ i' = other.i
    /\ messages' = other.messages
    /\ steps' = other.steps
    /\ systemPrompt' = other.systemPrompt
    /\ result' = other.result
    /\ calls' = other.calls
    /\ toolLog' = other.toolLog
    /\ UNCHANGED <<providers, benchVars>>

\* one run alone, or two runs with their own tools and budgets
InitTwo ==
    /\ text = <<>>
    /\ parsed = NotParsed
    /\ pc = "start"
    /\ providers \in AvailableProviderLists
    /\ tools \in ToolSetsTwo
    /\ context = Undefined
    /\ maxSteps \in 1..MaxStepsTwo
    /\ i = 0
    /\ messages = <<>>
    /\ steps = <<>>
    /\ systemPrompt = <<>>
    /\ result = NoResult
    /\ calls = <<>>
    /\ toolLog = <<>>
    /\ other \in {NoRun} \cup {NewRun(ts, budget) :
                                  ts \in ToolSetsTwo, budget \in 1..MaxStepsTwo}
    /\ focus = 1
    /\ NoBenchmark

NextTwo ==
    \/ Start
    \/ \E reply \in RepliesTwo : CompletionReturns(reply)
    \/ CompletionFails
    \/ \E out \in ToolOutputs : ToolReturns(out)
    \/ \E err \in ToolErrors : ToolThrows(err)
    \/ Switch

SpecTwo == InitTwo /\ [][NextTwo]_vars

----------------------------------------------------------------------------
(* Claims about runAgent *)

Terminated == pc \in {"returned", "raised"}
Threw(k) == k \in 1..Len(toolLog) /\ toolLog[k].outcome = "threw"
ObservationMessage(observation) ==
    [role |-> "user",
     content |-> <<MObservation, SP>> \o observation \o <<NL, NL, "Continue.">>]

\* C1: whenever runAgent has returned an AgentResult, its totalSteps is at
\* most maxSteps, whatever the replies, the tool outcomes and maxSteps >= 0.
C1_TotalStepsWithinBudget ==
    pc = "returned" => result.totalSteps <= maxSteps

\* a run that used its whole budget: tool calls first, the final answer on
\* the last allowed reply
C1_Witness ==
    /\ pc = "returned"
    /\ maxSteps >= 2
    /\ result.totalSteps = maxSteps
    /\ result.finalAnswer = <<"y">>
    /\ Len(result.steps) = maxSteps - 1

C3_TerminatesWithinBudget ==
    /\ <>Terminated
    /\ [](Len(calls) <= maxSteps)
    /\ [](parsed.finalAnswer # Undefined => pc = "returned")
    /\ [][Len(calls') # Len(calls) =>
            /\ Len(calls') = Len(calls) + 1
            /\ Len(calls) < maxSteps
            /\ parsed'.finalAnswer = Undefined
            /\ ~Terminated]_vars

\* a run that made all of its maxSteps completion calls and returned
C3_Witness ==
    /\ pc = "returned"
    /\ maxSteps >= 2
    /\ Len(calls) = maxSteps
    /\ \A k \in 1..Len(calls) : calls[k].outcome = "replied"

\* C4 as stated: runAgent raises only for the configuration error.
C4_RaisesOnlyForConfiguration ==
    pc = "raised" => result = ConfigError

\* C4, amended: runAgent raises only for the configuration error or for a
\* failed completion call; a tool failure never makes it raise.
C4_RaisesOnlyForConfigOrProvider ==
    pc = "raised" =>
        \/ /\ result = ConfigError
           /\ providers = <<>>
           /\ calls = <<>>
        \/ /\ result = ProviderError
           /\ calls # <<>>
           /\ calls[Len(calls)].outcome = "failed"
           /\ \A k \in 1..Len(toolLog) : toolLog[k].outcome # "pending"

\* a run raised by a completion failure, after a tool failure was absorbed
C4_Witness ==
    /\ pc = "raised"
    /\ result = ProviderError
    /\ \E k \in 1..Len(toolLog) : Threw(k)

\* C5: a failed completion call is the last call of its run: the run has
\* raised, holds no AgentResult, takes no further step, and no tool was
\* invoked at or after the iteration of the failed call.
C5_ProviderFailureEndsRun ==
    \A k \in 1..Len(calls) :
        calls[k].outcome = "failed" =>
            /\ k = Len(calls)
            /\ pc = "raised"
            /\ result = ProviderError
            /\ ~ENABLED Next
            /\ \A t \in 1..Len(toolLog) :
                  /\ toolLog[t].iteration < calls[k].iteration
                  /\ toolLog[t].outcome # "pending"

\* a completion call that fails after earlier iterations went through
C5_Witness ==
    /\ Len(calls) >= 2
    /\ calls[Len(calls)].outcome = "failed"
    /\ Len(steps) >= 1

\* C6: with no provider configured the run raises the configuration error in
\* its first step, with no completion call, no tool invocation and an empty
\* transcript, whatever the tools and maxSteps.
C6_NoProviderFailsFast ==
    providers = <<>> =>
        /\ calls = <<>>
        /\ toolLog = <<>>
        /\ messages = <<>>
        /\ steps = <<>>
        /\ pc # "start" => pc = "raised" /\ result = ConfigError

\* the configuration error with a zero budget and a non-empty tool set
C6_Witness ==
    /\ providers = <<>>
    /\ pc = "raised"
    /\ maxSteps = 0
    /\ tools # <<>>

\* C10: with a provider and maxSteps = 0 the first step returns: no
\* completion call, no tool invocation, empty steps, totalSteps 0 and the
\* no-tools answer of budget exhaustion.
C10_ZeroBudgetReturnsAtOnce ==
    (maxSteps = 0 /\ providers # <<>>) =>
        /\ calls = <<>>
        /\ toolLog = <<>>
        /\ pc # "start" =>
              /\ pc = "returned"
              /\ result = AgentResult(<<>>, NoToolsAnswer, 0)
              /\ ~ENABLED Next

\* the returned zero-budget run
C10_Witness ==
    /\ maxSteps = 0
    /\ providers # <<>>
    /\ pc = "returned"
    /\ result.steps = <<>>
    /\ result.totalSteps = 0

----------------------------------------------------------------------------
(* Claims about parseAgentResponse *)

WasParsed == parsed # NotParsed
LinesOf(t) == Split(t)
BeginsWith(line, marker) == StartsWith(Trim(line), marker)
Blank(t) == \A k \in 1..Len(t) : t[k] \in Whitespace

\* a is b without its leading and trailing whitespace
IsTrimOf(a, b) ==
    \E lo \in 0..Len(b) : \E hi \in lo..Len(b) :
        /\ a = SubSeq(b, lo + 1, hi)
        /\ \A k \in 1..lo : b[k] \in Whitespace
        /\ \A k \in (hi + 1)..Len(b) : b[k] \in Whitespace
        /\ a # <<>> => a[1] \notin Whitespace /\ a[Len(a)] \notin Whitespace

\* the text that follows the first occurrence of the marker
AfterFirst(t, marker) ==
    LET first == CHOOSE k \in 1..Len(t) :
                    t[k] = marker /\ \A m \in 1..(k - 1) : t[m] # marker
    IN SubSeq(t, first + 1, Len(t))

\* an Action line, and a later line that begins with the Final Answer marker
ActionThenFinal(t) ==
    \E k \in 1..Len(LinesOf(t)) : \E m \in (k + 1)..Len(LinesOf(t)) :
        /\ BeginsWith(LinesOf(t)[k], MAction)
        /\ BeginsWith(LinesOf(t)[m], MFinalAnswer)

IsToolCall(p) == p.finalAnswer = Undefined /\ p.action # Undefined

OnlyFinalMarker(t) ==
    /\ \E k \in 1..Len(t) : t[k] = MFinalAnswer
    /\ \A k \in 1..Len(t) : t[k] \in Markers => t[k] = MFinalAnswer

\* C8 as stated: when Final Answer is the only marker of the reply, the
\* parse is a final answer: the text after the marker's first occurrence,
\* trimmed.
C8_OnlyFinalGivesAnswer ==
    (WasParsed /\ OnlyFinalMarker(text)) =>
        /\ parsed.finalAnswer # Undefined
        /\ IsTrimOf(parsed.finalAnswer, AfterFirst(text, MFinalAnswer))

\* C8, amended: when Final Answer is the only marker of the reply, the parse
\* is a final answer exactly when some line begins with the marker and the
\* text after the marker's first occurrence is not blank, and then it is
\* that text, trimmed; otherwise the parse has no final answer.
C8_OnlyFinalGivesAnswerWhenWellFormed ==
    (WasParsed /\ OnlyFinalMarker(text)) =>
        IF /\ \E k \in 1..Len(LinesOf(text)) :
                  BeginsWith(LinesOf(text)[k], MFinalAnswer)
           /\ ~Blank(AfterFirst(text, MFinalAnswer))
        THEN /\ parsed.finalAnswer # Undefined
             /\ IsTrimOf(parsed.finalAnswer, AfterFirst(text, MFinalAnswer))
        ELSE parsed.finalAnswer = Undefined

\* a final answer of several lines, taken from a marker that is not at the
\* start of the text
C8_Witness ==
    /\ WasParsed
    /\ OnlyFinalMarker(text)
    /\ text[1] # MFinalAnswer
    /\ parsed.finalAnswer # Undefined
    /\ \E k \in 1..Len(parsed.finalAnswer) : parsed.finalAnswer[k] = NL

\* the first line after line k that begins with a Thought, Action, Final
\* Answer or Observation marker; one past the last line when there is none
BlockEnd(lines, k) ==
    LET stops == {j \in (k + 1)..Len(lines) :
                    \/ BeginsWith(lines[j], MThought)
                    \/ BeginsWith(lines[j], MAction)
                    \/ BeginsWith(lines[j], MFinalAnswer)
                    \/ BeginsWith(lines[j], MObservation)}
    IN IF stops = {} THEN Len(lines) + 1
       ELSE CHOOSE j \in stops : \A m \in stops : j <= m

\* the text after the marker of line k joined with the lines of its block
BlockText(lines, k) ==
    Join(<<Tail(Trim(lines[k]))>> \o SubSeq(lines, k + 1, BlockEnd(lines, k) - 1),
         <<NL>>)

InputLineIndexes(lines) ==
    {k \in 1..Len(lines) : BeginsWith(lines[k], MActionInput)}

SpansSeveralLines(lines, k) == BlockEnd(lines, k) > k + 1

\* C9 as stated: for every Action Input block of several lines the parsed
\* actionInput is the block's text, trimmed.
C9_InputIsBlock ==
    WasParsed =>
        \A k \in InputLineIndexes(LinesOf(text)) :
            SpansSeveralLines(LinesOf(text), k) =>
                IsTrimOf(OrEmpty(parsed.actionInput), BlockText(LinesOf(text), k))

\* C9, amended: when the last Action Input line of the reply opens a block of
\* several lines and no line before it begins with Final Answer, the parsed
\* actionInput is that block's text, trimmed.
C9_InputIsLastBlock ==
    WasParsed =>
        \A k \in InputLineIndexes(LinesOf(text)) :
            ( /\ \A m \in InputLineIndexes(LinesOf(text)) : m <= k
              /\ SpansSeveralLines(LinesOf(text), k)
              /\ \A m \in 1..(k - 1) : ~BeginsWith(LinesOf(text)[m], MFinalAnswer) )
            => IsTrimOf(OrEmpty(parsed.actionInput), BlockText(LinesOf(text), k))

\* a block of three lines whose middle line keeps its own leading blank
C9_Witness ==
    /\ WasParsed
    /\ LET lines == LinesOf(text) IN
         /\ InputLineIndexes(lines) = {1}
         /\ Len(lines) = 3
         /\ BlockEnd(lines, 1) = 4
         /\ lines[2] # <<>> /\ Head(lines[2]) = SP
         /\ ~Blank(lines[3])
    /\ Len(parsed.actionInput) > 4


----------------------------------------------------------------------------
(* Claims about the iterations of runAgent *)

\* the replies received so far, in order: the assistant messages
RepliesSoFar ==
    LET assistant == SelectSeq(messages, LAMBDA m : m.role = "assistant")
    IN [k \in 1..Len(assistant) |-> assistant[k].content]

DirectiveOf(reply) == parseAgentResponse(reply)
IsFinalAnswer(p) == p.finalAnswer # Undefined
IsUnparseable(p) == p.finalAnswer = Undefined /\ p.action = Undefined

\* C11: when a run has returned after k replies that each parsed to a tool
\* call and one more that parsed to a final answer A, the result has k Steps
\* whose actions are the k parsed action names in order, finalAnswer A and
\* totalSteps k + 1.
C11_ToolCallsThenFinalAnswer ==
    LET replies == RepliesSoFar
        n == Len(replies)
    IN ( /\ pc = "returned"
         /\ n >= 1
         /\ IsFinalAnswer(DirectiveOf(replies[n]))
         /\ \A k \in 1..(n - 1) : IsToolCall(DirectiveOf(replies[k])) )
       => /\ Len(result.steps) = n - 1
          /\ \A k \in 1..(n - 1) :
                result.steps[k].action = DirectiveOf(replies[k]).action
          /\ result.finalAnswer = DirectiveOf(replies[n]).finalAnswer
          /\ result.totalSteps = n
          /\ n <= maxSteps

\* two tool calls, of a known and of an unknown tool, then the final answer
C11_Witness ==
    /\ pc = "returned"
    /\ Len(RepliesSoFar) = 3
    /\ IsFinalAnswer(DirectiveOf(RepliesSoFar[3]))
    /\ IsToolCall(DirectiveOf(RepliesSoFar[1]))
    /\ IsToolCall(DirectiveOf(RepliesSoFar[2]))
    /\ result.steps[1].action # result.steps[2].action
    /\ result.totalSteps = 3


NudgeMessage ==
    [role |-> "user", content |-> <<"Use a tool or provide Final Answer.">>]

\* the step is the arrival of a reply
ReplyArrives ==
    /\ pc = "awaitCompletion"
    /\ calls'[Len(calls)].outcome = "replied"

Contains(t, token) == \E k \in 1..Len(t) : t[k] = token

\* C12: a reply with no Action and no final answer appends no Step, invokes
\* no tool, appends the reply and one corrective user message, and uses one
\* unit of the budget; a run with maxSteps >= 1 whose replies were all such
\* returns totalSteps = maxSteps, no Steps and an answer containing
\* "maximum steps".
C12_UnparseableReplyIsNudged ==
    /\ [][(ReplyArrives /\ IsUnparseable(parsed')) =>
            /\ steps' = steps
            /\ toolLog' = toolLog
            /\ messages' = messages
                            \o <<[role |-> "assistant", content |-> text'],
                                 NudgeMessage>>
            /\ i' = i + 1
            /\ pc' = IF i + 1 < maxSteps THEN "awaitCompletion" ELSE "returned"
          ]_vars
    /\ []( ( /\ pc = "returned"
             /\ maxSteps >= 1
             /\ \A k \in 1..Len(RepliesSoFar) :
                   IsUnparseable(DirectiveOf(RepliesSoFar[k])) )
           => /\ Len(RepliesSoFar) = maxSteps
              /\ result.totalSteps = maxSteps
              /\ result.steps = <<>>
              /\ Contains(result.finalAnswer, "maximum steps") )

\* three replies without a directive use up a budget of three
C12_Witness ==
    /\ pc = "returned"
    /\ maxSteps = 3
    /\ Len(RepliesSoFar) = 3
    /\ \A k \in 1..3 : IsUnparseable(DirectiveOf(RepliesSoFar[k]))
    /\ RepliesSoFar[1] # <<>>
    /\ result.totalSteps = 3
    /\ Len(messages) = 7


\* no tool of the run's tool set has this name
NamesNoTool(name) == \A k \in 1..Len(tools) : tools[k].name # name

NamesOf(ts) == [k \in 1..Len(ts) |-> ts[k].name]

UnknownToolObservation(name) ==
    <<"Unknown tool: ">> \o name \o <<". Available: ">>
    \o Join(NamesOf(tools), <<", ">>)

\* the step is the arrival of a reply whose action names no tool of the set
UnknownToolArrives ==
    /\ ReplyArrives
    /\ IsToolCall(parsed')
    /\ NamesNoTool(parsed'.action)

\* what every arrival of an unknown tool does: no execute call, one Step
UnknownToolRecorded ==
    /\ toolLog' = toolLog
    /\ Len(steps') = Len(steps) + 1
    /\ SubSeq(steps', 1, Len(steps)) = steps
    /\ steps'[Len(steps')].action = parsed'.action
    /\ steps'[Len(steps')].observation = UnknownToolObservation(parsed'.action)
    /\ pc' # "raised"

NextCallIssued ==
    /\ pc' = "awaitCompletion"
    /\ i' = i + 1
    /\ Len(calls') = Len(calls) + 1
    /\ calls'[Len(calls')].outcome = "pending"

\* C13, as stated: an action naming no tool of the set executes nothing,
\* appends exactly one Step with the observation "Unknown tool: <name>" and
\* the available names, and the run goes on to the next iteration.
C13_UnknownToolContinues ==
    [][UnknownToolArrives => (UnknownToolRecorded /\ NextCallIssued)]_vars

\* C13, amended: an action naming no tool of the set executes nothing and
\* appends exactly one Step with the observation "Unknown tool: <name>" and
\* the available names; the run does not raise, it goes on to the next
\* iteration while the budget lasts, and when the iteration was the last of
\* the budget it returns the result of an exhausted budget.
C13_UnknownToolContinuesWithinBudget ==
    [][UnknownToolArrives =>
         /\ UnknownToolRecorded
         /\ IF i + 1 < maxSteps
            THEN NextCallIssued
            ELSE /\ pc' = "returned"
                 /\ result' = AgentResult(steps', SummaryAnswer(steps'), maxSteps)
      ]_vars

\* an unknown tool was reported with the two available names, nothing was
\* executed, and the next completion call is outstanding
C13_Witness ==
    /\ pc = "awaitCompletion"
    /\ Len(steps) = 1
    /\ steps[1].observation =
          <<"Unknown tool: ", "x", "y", ". Available: ", "x", ", ", "y">>
    /\ toolLog = <<>>
    /\ Len(calls) = 2


\* the actions of the replies so far that are tool calls, in order
RECURSIVE ActionsCalled(_)
ActionsCalled(replies) ==
    IF replies = <<>> THEN <<>>
    ELSE LET p == DirectiveOf(Head(replies))
         IN (IF IsToolCall(p) THEN <<p.action>> ELSE <<>>)
            \o ActionsCalled(Tail(replies))

StepActions(st) == [k \in 1..Len(st) |-> st[k].action]

\* C14: in every state of a run each Step's action names a tool of the
\* tool set or is reported as unknown by that Step's observation, and the
\* Steps are the parsed actions of the tool-call replies, one Step each in
\* order, the only action without a Step being the one whose tool is
\* executing.
C14_EveryActionHasItsStep ==
    /\ \A k \in 1..Len(steps) :
          \/ ~NamesNoTool(steps[k].action)
          \/ steps[k].observation = UnknownToolObservation(steps[k].action)
    /\ LET called == ActionsCalled(RepliesSoFar)
       IN IF pc = "awaitTool"
          THEN /\ called # <<>>
               /\ StepActions(steps) = SubSeq(called, 1, Len(called) - 1)
               /\ ~NamesNoTool(called[Len(called)])
          ELSE StepActions(steps) = called
    /\ pc = "returned" => result.steps = steps

\* a trace with a Step of a known tool and a Step of an unknown one
C14_Witness ==
    /\ Len(steps) = 3
    /\ ~NamesNoTool(steps[1].action)
    /\ NamesNoTool(steps[2].action)
    /\ Head(steps[2].observation) = "Unknown tool: "
    /\ tools # <<>>


\* Iteration k of the loop is the one of the k-th completion call; it is
\* over when a later call exists or the run has terminated.
IterationOver(k) == k < Len(calls) \/ pc \in {"returned", "raised"}

\* the transcript at the end of iteration k
TranscriptAfter(k) == IF k < Len(calls) THEN calls[k + 1].messages ELSE messages

\* the messages iteration k appended to the transcript
AppendedBy(k) ==
    SubSeq(TranscriptAfter(k), Len(calls[k].messages) + 1, Len(TranscriptAfter(k)))

\* the loop ended inside iteration k: a return with the final answer of its
\* reply, or the failure of its completion call
EndedInside(k) ==
    /\ k = Len(calls)
    /\ \/ pc = "raised"
       \/ pc = "returned" /\ IsFinalAnswer(parsed)

RolesOf(msgs) == [k \in 1..Len(msgs) |-> msgs[k].role]

\* C15, as stated: an iteration in which the loop terminates appends exactly
\* one message, the assistant reply, and every other iteration exactly two,
\* the assistant reply and one user message.
C15_TranscriptGrowsByOneOrTwo ==
    \A k \in 1..Len(calls) :
       IterationOver(k) =>
          /\ SubSeq(TranscriptAfter(k), 1, Len(calls[k].messages)) = calls[k].messages
          /\ RolesOf(AppendedBy(k)) =
                IF EndedInside(k) THEN <<"assistant">> ELSE <<"assistant", "user">>

\* C15, amended: an iteration whose completion call fails appends nothing;
\* an iteration whose reply carries the final answer appends exactly one
\* message, the assistant reply; every other iteration, the last one of an
\* exhausted budget included, appends exactly two, the assistant reply and
\* one user message (observation or nudge).
C15_TranscriptGrowsByReply ==
    \A k \in 1..Len(calls) :
       IterationOver(k) =>
          /\ SubSeq(TranscriptAfter(k), 1, Len(calls[k].messages)) = calls[k].messages
          /\ RolesOf(AppendedBy(k)) =
                IF calls[k].outcome = "failed" THEN <<>>
                ELSE IF EndedInside(k) THEN <<"assistant">>
                ELSE <<"assistant", "user">>
          /\ calls[k].outcome = "failed" <=> (k = Len(calls) /\ pc = "raised")

\* a run whose first two iterations appended two messages each and whose
\* third ended with a failed completion call
C15_Witness ==
    /\ pc = "raised"
    /\ Len(calls) = 3
    /\ Len(AppendedBy(1)) = 2
    /\ Len(AppendedBy(2)) = 2
    /\ AppendedBy(3) = <<>>
    /\ Len(messages) = 5


\* a reply with two Action lines and two Action Input blocks
SeveralMarkers ==
    <<MActionInput, SP, "x", NL, MAction, SP, "x", NL,
      MActionInput, SP, "y", NL, MAction, SP, "y">>

\* C16: no iteration has more than one execute call, whatever the reply:
\* the execute calls of a run belong to strictly increasing iterations, each
\* to an iteration whose completion call has been answered.
C16_OneExecutePerIteration ==
    /\ \A j, k \in 1..Len(toolLog) :
          j < k => toolLog[j].iteration < toolLog[k].iteration
    /\ \A k \in 1..Len(toolLog) :
          /\ toolLog[k].iteration \in 0..i
          /\ calls[toolLog[k].iteration + 1].outcome = "replied"
    /\ Len(toolLog) <= Len(RepliesSoFar)

\* two replies with two Action lines and two Action Input blocks each, and
\* one execute call for each of the two iterations
C16_Witness ==
    /\ Len(RepliesSoFar) = 2
    /\ RepliesSoFar[1] = SeveralMarkers
    /\ RepliesSoFar[2] = SeveralMarkers
    /\ pc = "awaitTool"
    /\ Len(toolLog) = 2
    /\ tools[toolLog[2].tool].name = <<"y">>


\* the execute calls made in the iteration of the k-th reply
ExecutionsFor(k) == {j \in 1..Len(toolLog) : toolLog[j].iteration = k - 1}

\* an execute call runs only between the parse of its iteration's reply and
\* the next completion call: while it is outstanding it is the latest
\* execute call, the reply of its iteration has arrived and been parsed, and
\* no later completion call exists
ExecutionsInTheirIteration ==
    /\ \A j \in 1..Len(toolLog) :
          /\ toolLog[j].iteration + 1 <= Len(calls)
          /\ calls[toolLog[j].iteration + 1].outcome = "replied"
          /\ toolLog[j].outcome = "pending" =>
                /\ j = Len(toolLog)
                /\ pc = "awaitTool"
                /\ Len(calls) = toolLog[j].iteration + 1
                /\ parsed = DirectiveOf(RepliesSoFar[Len(RepliesSoFar)])
    /\ pc = "awaitTool" => toolLog[Len(toolLog)].outcome = "pending"

\* C17, as stated: every reply with an Action and no final answer has
\* exactly one execute call, made after the parse of the reply and resolved
\* before the next completion call is issued.
C17_OneExecutionPerToolCall ==
    /\ ExecutionsInTheirIteration
    /\ \A k \in 1..Len(RepliesSoFar) :
          IsToolCall(DirectiveOf(RepliesSoFar[k])) =>
             Cardinality(ExecutionsFor(k)) = 1

\* C17, amended: a reply with an Action and no final answer has exactly one
\* execute call when its action names a tool of the tool set, the call
\* being of the first tool of that name with the parsed input, and none
\* when it does not; every other reply has none; an execute call is made
\* after the parse of the reply and resolved before the next completion
\* call is issued.
C17_OneExecutionPerKnownToolCall ==
    /\ ExecutionsInTheirIteration
    /\ \A k \in 1..Len(RepliesSoFar) :
          LET p == DirectiveOf(RepliesSoFar[k])
          IN IF IsToolCall(p) /\ ~NamesNoTool(p.action)
             THEN /\ Cardinality(ExecutionsFor(k)) = 1
                  /\ \A j \in ExecutionsFor(k) :
                        /\ tools[toolLog[j].tool].name = p.action
                        /\ \A m \in 1..(toolLog[j].tool - 1) :
                              tools[m].name # p.action
                        /\ toolLog[j].input = OrEmpty(p.actionInput)
             ELSE ExecutionsFor(k) = {}

\* a run whose first reply called a tool of the set, executed once, and
\* whose second named an unknown tool, not executed
C17_Witness ==
    /\ pc = "awaitCompletion"
    /\ Len(RepliesSoFar) = 2
    /\ IsToolCall(DirectiveOf(RepliesSoFar[1]))
    /\ IsToolCall(DirectiveOf(RepliesSoFar[2]))
    /\ NamesNoTool(DirectiveOf(RepliesSoFar[2]).action)
    /\ tools # <<>>
    /\ Len(toolLog) = 1
    /\ toolLog[1].outcome = "returned"
    /\ toolLog[1].input = <<"y">>


OutstandingCalls == {k \in 1..Len(calls) : calls[k].outcome = "pending"}
OutstandingTools == {j \in 1..Len(toolLog) : toolLog[j].outcome = "pending"}

\* C18: a run never has more than one completion call outstanding, never
\* more than one execute call outstanding and never one of each; the
\* completion calls are issued one per iteration in order, each after the
\* previous call and every execute call of an earlier iteration resolved.
C18_OneCallOutstanding ==
    /\ Cardinality(OutstandingCalls) <= 1
    /\ Cardinality(OutstandingTools) <= 1
    /\ OutstandingCalls = {} \/ OutstandingTools = {}
    /\ \A k \in 1..Len(calls) :
          /\ calls[k].iteration = k - 1
          /\ k < Len(calls) => calls[k].outcome = "replied"
          /\ \A j \in 1..Len(toolLog) :
                toolLog[j].iteration < calls[k].iteration
                   => toolLog[j].outcome \in {"returned", "threw"}
    /\ OutstandingCalls # {} <=> pc = "awaitCompletion"
    /\ OutstandingTools # {} <=> pc = "awaitTool"

\* the third completion call is outstanding after two execute calls, one
\* returned and one thrown
C18_Witness ==
    /\ pc = "awaitCompletion"
    /\ OutstandingCalls = {3}
    /\ Len(toolLog) = 2
    /\ toolLog[1].outcome = "returned"
    /\ toolLog[2].outcome = "threw"


\* the run returned because the budget was used up, not with a final answer
Exhausted == pc = "returned" /\ ~IsFinalAnswer(parsed)

\* the names of the tools whose execute was invoked
InvokedNames == {tools[toolLog[j].tool].name : j \in 1..Len(toolLog)}

\* L lists every action of the Steps st exactly once, in the order in which
\* the actions first occur in st
ListsEachOnce(L, st) ==
    /\ {L[k] : k \in 1..Len(L)} = {st[k].action : k \in 1..Len(st)}
    /\ \A j, k \in 1..Len(L) : j # k => L[j] # L[k]
    /\ \A j, k \in 1..Len(L) :
          j < k => \E m \in 1..Len(st) :
                      /\ st[m].action = L[j]
                      /\ \A n \in 1..m : st[n].action # L[k]

\* C20: the result of an exhausted budget has totalSteps = maxSteps; with
\* no Step its finalAnswer is the fixed no-tools message; with Steps it
\* states their number and lists the distinct actions of the Steps, among
\* them every invoked tool name, exactly once each.
C20_ExhaustionSummary ==
    Exhausted =>
       /\ result.totalSteps = maxSteps
       /\ result.steps = steps
       /\ Len(RepliesSoFar) = maxSteps
       /\ steps = <<>> =>
             result.finalAnswer =
                <<"Agent reached ", "maximum steps", " without executing tools.">>
       /\ steps # <<>> =>
             \E n \in 1..Len(steps) :
                \E L \in [1..n -> {steps[k].action : k \in 1..Len(steps)}] :
                   /\ ListsEachOnce(L, steps)
                   /\ InvokedNames \subseteq {L[k] : k \in 1..n}
                   /\ result.finalAnswer =
                         <<"Agent completed ", ToString(Len(steps)),
                           " steps. Tools used: ">>
                         \o Join(L, <<", ">>) \o <<".">>

\* an exhausted budget of three with tool y invoked, then x, then y again
C20_Witness ==
    /\ Exhausted
    /\ maxSteps = 3
    /\ Len(steps) = 3
    /\ steps[1].action = <<"y">>
    /\ steps[2].action = <<"x">>
    /\ steps[3].action = <<"y">>
    /\ Len(toolLog) = 3
    /\ result.finalAnswer =
          <<"Agent completed ", "3", " steps. Tools used: ", "y", ", ", "x", ".">>


\* What a call of runAgent with the options of run does on its own when its
\* completion calls resolve as run.calls records and its execute calls as
\* run.toolLog records: the loop from iteration k on, with the Steps st, the
\* transcript msgs and j execute calls already made.
RECURSIVE LoopAlone(_, _, _, _, _)
LoopAlone(run, k, st, msgs, j) ==
    IF ~(k < run.maxSteps)
    THEN [pc |-> "returned", i |-> k, messages |-> msgs, steps |-> st,
          result |-> AgentResult(st, SummaryAnswer(st), run.maxSteps)]
    ELSE LET call == run.calls[k + 1]
             p == parseAgentResponse(call.reply)
             said == Append(msgs, [role |-> "assistant", content |-> call.reply])
             tool == FindTool(run.tools, p.action)
             Observed(observation, jj) ==
                LoopAlone(run, k + 1,
                          Append(st, [thought |-> p.thought, action |-> p.action,
                                      actionInput |-> OrEmpty(p.actionInput),
                                      observation |-> observation]),
                          Append(said, ObservationMessage(observation)),
                          jj)
         IN IF call.outcome = "pending"
            THEN [pc |-> "awaitCompletion", i |-> k, messages |-> msgs,
                  steps |-> st, result |-> NoResult]
            ELSE IF call.outcome = "failed"
            THEN [pc |-> "raised", i |-> k, messages |-> msgs, steps |-> st,
                  result |-> ProviderError]
            ELSE IF p.finalAnswer # Undefined
            THEN [pc |-> "returned", i |-> k, messages |-> said, steps |-> st,
                  result |-> AgentResult(st, p.finalAnswer, k + 1)]
            ELSE IF p.action = Undefined
            THEN LoopAlone(run, k + 1, st, Append(said, NudgeMessage), j)
            ELSE IF tool = 0
            THEN Observed(<<"Unknown tool: ">> \o p.action \o <<". Available: ">>
                          \o ToolNames(run.tools), j)
            ELSE LET exec == run.toolLog[j + 1]
                 IN IF exec.outcome = "pending"
                    THEN [pc |-> "awaitTool", i |-> k, messages |-> said,
                          steps |-> st, result |-> NoResult]
                    ELSE IF exec.outcome = "threw"
                    THEN Observed(<<"Tool error: ">> \o exec.value, j + 1)
                    ELSE Observed(exec.value, j + 1)

RunAlone(run) ==
    IF Len(providers) = 0
    THEN [pc |-> "raised", i |-> 0, messages |-> <<>>, steps |-> <<>>,
          result |-> ConfigError]
    ELSE LoopAlone(run, 0, <<>>,
            <<[role |-> "user",
               content |-> <<"Goal: ">> \o Goal
                           \o (IF run.context # Undefined /\ run.context # <<>>
                               THEN <<NL, NL, "Context:", NL>> \o run.context
                               ELSE <<>>)
                           \o <<NL, NL, "Begin.">>]>>,
            0)

\* a started run is where, and has the transcript, the step trace and the
\* result, that it has alone with the same replies and tool outcomes
AsAlone(run) ==
    run.pc # "start" =>
       LET alone == RunAlone(run)
       IN /\ run.pc = alone.pc
          /\ run.i = alone.i
          /\ run.messages = alone.messages
          /\ run.steps = alone.steps
          /\ run.result = alone.result

\* C19: with two runs of runAgent interleaved at their awaits, each run's
\* transcript, step trace and result are those of the run alone with the
\* same replies and tool outcomes (a run alone is one with no second run).
C19_RunsDoNotInterfere ==
    /\ AsAlone(ThisRun)
    /\ other # NoRun => AsAlone(other)

\* one run has returned with a final answer after a Step while the other,
\* with another tool set, is suspended at its second execute call
C19_Witness ==
    /\ other # NoRun
    /\ pc = "returned"
    /\ IsFinalAnswer(parsed)
    /\ Len(result.steps) = 1
    /\ other.pc = "awaitTool"
    /\ Len(other.steps) = 1
    /\ other.tools # tools
    /\ other.steps # steps


----------------------------------------------------------------------------
(* Claims about the set-up of a run, its prompt and its transcript *)

\* two tools of the tool set have the same name
DuplicateToolNames(ts) ==
    \E j, k \in 1..Len(ts) : j # k /\ ts[j].name = ts[k].name

\* C21: a run whose tool set has two tools of the same name raises a
\* configuration error at its set-up: once started it is raised with an
\* error, having made no completion call and no execute call.
C21_DuplicateToolNamesRejected ==
    (DuplicateToolNames(tools) /\ pc # "start") =>
       /\ pc = "raised"
       /\ result.kind = "error"
       /\ calls = <<>>
       /\ toolLog = <<>>


\* the template of buildAgentSystemPrompt filled with the names and
\* descriptions of the tools ts
PromptOf(ts) ==
    <<"You are a benchmark analysis agent. [...] Available tools:", NL>>
    \o Join([k \in 1..Len(ts) |->
                <<SP, SP>> \o ts[k].name \o <<":", SP>> \o ts[k].description],
            <<NL>>)
    \o <<NL, NL, "Format (exactly): [...] Do NOT combine Action and Final Answer">>

\* C27: every completion call of a run is passed the same system prompt,
\* the one built from the run's tool set before the first call, and no
\* step of the run after its set-up changes the prompt.
C27_SystemPromptFixed ==
    /\ [](\A k \in 1..Len(calls) : calls[k].systemPrompt = PromptOf(tools))
    /\ [](calls # <<>> => systemPrompt = PromptOf(tools))
    /\ [][pc # "start" => systemPrompt' = systemPrompt]_vars

\* three calls with the prompt of two tools, after an observation and a
\* nudge entered the transcript
C27_Witness ==
    /\ Len(calls) = 3
    /\ Len(tools) = 2
    /\ Len(steps) = 1
    /\ \E k \in 1..Len(messages) : messages[k] = NudgeMessage
    /\ \A k \in 1..3 : calls[k].systemPrompt = PromptOf(tools)

\* s is a prefix of t
IsPrefix(s, t) == Len(s) <= Len(t) /\ SubSeq(t, 1, Len(s)) = s

\* C28: every completion call is passed the whole transcript of its moment,
\* and the transcript only grows at its end: what one call was passed is a
\* prefix of what the next is passed and of the transcript ever after, and
\* no step removes, reorders or changes a message.
C28_TranscriptAppendOnly ==
    /\ [](\A k \in 1..Len(calls) :
            /\ IsPrefix(calls[k].messages, messages)
            /\ k < Len(calls) =>
                  /\ IsPrefix(calls[k].messages, calls[k + 1].messages)
                  /\ Len(calls[k].messages) < Len(calls[k + 1].messages)
            /\ calls[k].outcome = "pending" => calls[k].messages = messages)
    /\ [][pc # "start" => IsPrefix(messages, messages')]_vars
    /\ [][Len(calls') > Len(calls) => calls'[Len(calls')].messages = messages']_vars

\* the third call is outstanding with a transcript of five messages
C28_Witness ==
    /\ pc = "awaitCompletion"
    /\ Len(calls) = 3
    /\ Len(calls[1].messages) = 1
    /\ Len(calls[2].messages) = 3
    /\ Len(calls[3].messages) = 5
    /\ calls[3].messages = messages


\* s occurs in t as a run of consecutive tokens
OccursIn(s, t) ==
    \E k \in 0..(Len(t) - Len(s)) : SubSeq(t, k + 1, k + Len(s)) = s

\* the step is the failure of the outstanding execute call
ToolFails ==
    /\ pc = "awaitTool"
    /\ toolLog'[Len(toolLog)].outcome = "threw"

\* the Step and the message the step appends carry the same observation
ObservationFedBack ==
    /\ Len(steps') = Len(steps) + 1
    /\ messages' = Append(messages,
                          ObservationMessage(steps'[Len(steps')].observation))

\* C29, as stated: when the execute of a tool of the set fails, the
\* observation of the recorded Step, fed back to the model, contains the
\* name of the tool and the failure message.
C29_FailureNamesTool ==
    [][ToolFails =>
         /\ ObservationFedBack
         /\ OccursIn(tools[toolLog[Len(toolLog)].tool].name,
                     steps'[Len(steps')].observation)
         /\ OccursIn(toolLog'[Len(toolLog)].value,
                     steps'[Len(steps')].observation)
      ]_vars

\* C29, amended: when the execute of a tool of the set fails, the
\* observation of the recorded Step, fed back to the model, is
\* "Tool error: " followed by the failure message; the name of the tool is
\* in the Step's action, not in the observation.
C29_FailureGivesMessage ==
    [][ToolFails =>
         /\ ObservationFedBack
         /\ steps'[Len(steps')].observation
               = <<"Tool error: ">> \o toolLog'[Len(toolLog)].value
         /\ steps'[Len(steps')].action = tools[toolLog[Len(toolLog)].tool].name
      ]_vars

\* tool y failed: its Step and the message after it say "Tool error: boom"
C29_Witness ==
    /\ Len(steps) >= 1
    /\ steps[Len(steps)].action = <<"y">>
    /\ steps[Len(steps)].observation = <<"Tool error: ", "boom">>
    /\ toolLog[Len(toolLog)].outcome = "threw"
    /\ messages[Len(messages)] = ObservationMessage(<<"Tool error: ", "boom">>)


----------------------------------------------------------------------------
(* A claim about the Final Answer marker inside a line *)

\* the text before the first occurrence of the marker
BeforeFirst(t, marker) ==
    LET first == CHOOSE k \in 1..Len(t) :
                    t[k] = marker /\ \A m \in 1..(k - 1) : t[m] # marker
    IN SubSeq(t, 1, first - 1)

\* the lines of t that begin, once trimmed, with the Final Answer marker
FinalLines(t) ==
    {k \in 1..Len(LinesOf(t)) : BeginsWith(LinesOf(t)[k], MFinalAnswer)}

\* the lines of t before line k, as a text
LinesBefore(t, k) == Join(SubSeq(LinesOf(t), 1, k - 1), <<NL>>)

SameButAnswer(p, q) ==
    /\ p.thought = q.thought
    /\ p.action = q.action
    /\ p.actionInput = q.actionInput

\* C30, as stated: a text in which the Final Answer marker occurs anywhere,
\* in the middle of a line too, parses to a final answer, the text after
\* the marker's first occurrence, and nothing after that occurrence is
\* parsed.
C30_MarkerAnywhereGivesAnswer ==
    (WasParsed /\ Contains(text, MFinalAnswer)) =>
        /\ parsed.finalAnswer # Undefined
        /\ IsTrimOf(parsed.finalAnswer, AfterFirst(text, MFinalAnswer))
        /\ SameButAnswer(parsed,
                         parseAgentResponse(BeforeFirst(text, MFinalAnswer)))

\* C30, amended: a text parses to a final answer exactly when one of its
\* lines begins, once trimmed, with the Final Answer marker and the text
\* after the marker's first occurrence in the whole text, which may be in
\* the middle of an earlier line, is not blank; the final answer is that
\* text, trimmed.  The scan stops at the first line that begins with the
\* marker: thought, action and input are those of the lines before it.  A
\* marker that occurs only in the middle of lines gives no final answer: it
\* is ordinary text of its line.
C30_MarkerAtLineStartGivesAnswer ==
    WasParsed =>
        IF FinalLines(text) # {}
        THEN LET f == CHOOSE k \in FinalLines(text) :
                         \A m \in FinalLines(text) : k <= m
             IN /\ IF Blank(AfterFirst(text, MFinalAnswer))
                   THEN parsed.finalAnswer = Undefined
                   ELSE /\ parsed.finalAnswer # Undefined
                        /\ IsTrimOf(parsed.finalAnswer,
                                    AfterFirst(text, MFinalAnswer))
                /\ SameButAnswer(parsed,
                                 parseAgentResponse(LinesBefore(text, f)))
        ELSE parsed.finalAnswer = Undefined

\* the marker is in the middle of the first line and at the start of a
\* later one: the final answer runs from the first occurrence and holds the
\* second marker
C30_Witness ==
    /\ WasParsed
    /\ Len(LinesOf(text)) >= 2
    /\ Contains(LinesOf(text)[1], MFinalAnswer)
    /\ 1 \notin FinalLines(text)
    /\ FinalLines(text) # {}
    /\ parsed.finalAnswer # Undefined
    /\ Contains(parsed.finalAnswer, MFinalAnswer)


----------------------------------------------------------------------------
(* The look-ups applied to every input of bounded sets *)

\* no run of runAgent
AgentIdle ==
    /\ text = <<>>
    /\ parsed = NotParsed
    /\ pc = "start"
    /\ providers = <<>>
    /\ tools = <<>>
    /\ context = Undefined
    /\ maxSteps = 0
    /\ i = 0
    /\ messages = <<>>
    /\ steps = <<>>
    /\ systemPrompt = <<>>
    /\ result = NoResult
    /\ calls = <<>>
    /\ toolLog = <<>>
    /\ other = NoRun
    /\ focus = 1

AllModels == ModelsFrom(PROVIDERS)
ModelIds == {AllModels[k].id : k \in 1..Len(AllModels)}
ModelLabels == {AllModels[k].label : k \in 1..Len(AllModels)}

PrefixesOf(s) == {SubSeq(s, 1, n) : n \in 0..Len(s)}

\* the queries: every id and label, their prefixes, the same in lower and
\* in upper case, the hyphenated labels, and names of no model
Queries ==
    LET names == ModelIds \cup ModelLabels
        prefixes == UNION {PrefixesOf(n) : n \in names}
        upper(s) == [k \in 1..Len(s) |->
                        IF \E j \in 1..26 : LowerCase[j] = s[k]
                        THEN UpperCase[CHOOSE j \in 1..26 : LowerCase[j] = s[k]]
                        ELSE s[k]]
    IN prefixes
       \cup {ToLowerCase(p) : p \in prefixes}
       \cup {upper(p) : p \in prefixes}
       \cup {ReplaceSpaces(ToLowerCase(l)) : l \in ModelLabels}
       \cup {<<"n", "o", "p", "e">>, <<"g", "p", "t", "-", "5">>,
             <<"4", "o">>, <<"m", "i", "n", "i">>, <<" ">>}

\* the values of an environment variable and of an entry of apiKeys: absent,
\* the empty string, a key
EnvValues == {Undefined, <<>>, <<"k">>}
ApiKeyMaps ==
    {[given |-> FALSE, keys |-> [p \in CatalogKeys |-> Undefined]]}
    \cup {[given |-> TRUE, keys |-> f] : f \in [CatalogKeys -> EnvValues]}

GetAvailableProviders ==
    /\ bpc = "call"
    /\ options.fn = "getAvailableProviders"
    /\ returned' = getAvailableProviders(options.apiKeys, env)
    /\ bpc' = "done"
    /\ UNCHANGED <<agentVars, env, options, modelsToRun, results, at>>

\* the longest list of results given to computeStats
MaxRows == 3

\* result rows as runBenchmark writes them: a failed row, and successful
\* rows of two latencies, for the first model of each provider
SampleRows ==
    LET row(m, latency, failed) ==
            [model |-> m.label, modelId |-> m.id, provider |-> m.providerName,
             promptName |-> "reasoning",
             latencyMs |-> IF failed THEN 0 ELSE latency,
             inputTokens |-> IF failed THEN 0 ELSE 12,
             outputTokens |-> IF failed THEN 0 ELSE 20,
             costUsd |-> IF failed THEN 0
                         ELSE RoundedRatio(12 * m.inputCost + 20 * m.outputCost,
                                           1000),
             error |-> IF failed THEN <<"e">> ELSE Undefined]
    IN {row(getAllModels(<<p>>)[1], l, f) :
           p \in CatalogKeys, l \in {10, 25}, f \in BOOLEAN}

RowLists == UNION {[1..n -> SampleRows] : n \in 0..MaxRows}

ComputeStats ==
    /\ bpc = "call"
    /\ options.fn = "computeStats"
    /\ returned' = computeStats(options.results)
    /\ bpc' = "done"
    /\ UNCHANGED <<agentVars, env, options, modelsToRun, results, at>>

ResolveModel ==
    /\ bpc = "call"
    /\ options.fn = "resolveModel"
    /\ returned' = resolveModel(options.query)
    /\ bpc' = "done"
    /\ UNCHANGED <<agentVars, env, options, modelsToRun, results, at>>

InitLib ==
    /\ AgentIdle
    /\ env \in [EnvKeys -> EnvValues]
    /\ options \in {[fn |-> "resolveModel", query |-> q] : q \in Queries}
                 \cup {[fn |-> "getAvailableProviders", apiKeys |-> a] :
                          a \in ApiKeyMaps}
                 \cup {[fn |-> "computeStats", results |-> r] :
                          r \in RowLists}
    /\ options.fn # "getAvailableProviders"
          => env = [key \in EnvKeys |-> Undefined]
    /\ bpc = "call"
    /\ modelsToRun = <<>>
    /\ results = <<>>
    /\ at = <<1, 1>>
    /\ returned = Undefined

NextLib ==
    \/ ResolveModel
    \/ GetAvailableProviders
    \/ ComputeStats

SpecLib == InitLib /\ [][NextLib]_vars

----------------------------------------------------------------------------
(* Claims about the look-ups *)

Applied(fn) == bpc = "done" /\ options.fn = fn

KeysOf(cfgs) == [k \in 1..Len(cfgs) |-> cfgs[k].key]

\* C25 as stated: getAvailableProviders returns, in catalog order, exactly
\* the providers with a non-empty explicit key or whose environment
\* variable is set, whatever its value.
C25_AvailableWhenSet ==
    Applied("getAvailableProviders") =>
       LET has(cfg) ==
               \/ /\ options.apiKeys.given
                  /\ options.apiKeys.keys[cfg.key] \notin {Undefined, <<>>}
               \/ env[cfg.envKey] # Undefined
       IN returned = KeysOf(SelectSeq(PROVIDERS, has))

\* C25 amended: getAvailableProviders returns, in catalog order, exactly
\* the providers with a non-empty explicit key or whose environment
\* variable is set to a non-empty value, and the empty list when there is
\* no such provider.
C25_AvailableWhenNonEmpty ==
    Applied("getAvailableProviders") =>
       LET has(cfg) ==
               \/ /\ options.apiKeys.given
                  /\ options.apiKeys.keys[cfg.key] \notin {Undefined, <<>>}
               \/ env[cfg.envKey] \notin {Undefined, <<>>}
           none == \A p \in 1..Len(PROVIDERS) : ~has(PROVIDERS[p])
       IN /\ returned = KeysOf(SelectSeq(PROVIDERS, has))
          /\ none => returned = <<>>

\* a provider found by its explicit key alone, one by its environment
\* variable alone, and one left out although its variable is set (to "")
C25_Witness ==
    /\ Applied("getAvailableProviders")
    /\ options.apiKeys.given
    /\ options.apiKeys.keys["anthropic"] = <<"k">>
    /\ env["ANTHROPIC_API_KEY"] = Undefined
    /\ options.apiKeys.keys["openai"] = <<>>
    /\ env["OPENAI_API_KEY"] = <<>>
    /\ options.apiKeys.keys["gemini"] = Undefined
    /\ env["GEMINI_API_KEY"] = <<"k">>
    /\ returned = <<"anthropic", "gemini">>


\* C24: computeStats returns exactly one entry for each distinct model
\* label of its input, the totalRuns of an entry is the number of input
\* results of its label, and the entries are in non-decreasing order of
\* avgLatencyMs.
C24_StatsPerLabelSorted ==
    Applied("computeStats") =>
       LET rows == options.results
           labels == {rows[k].model : k \in 1..Len(rows)}
       IN /\ Len(returned) = Cardinality(labels)
          /\ {returned[k].model : k \in 1..Len(returned)} = labels
          /\ \A k \in 1..Len(returned) :
                returned[k].totalRuns =
                   Cardinality({j \in 1..Len(rows) :
                                  rows[j].model = returned[k].model})
          /\ \A k \in 1..Len(returned) - 1 :
                returned[k].avgLatencyMs <= returned[k + 1].avgLatencyMs

\* two labels, the first of them with two results and the larger rounded
\* average, so that the sort moves it behind the second
C24_Witness ==
    /\ Applied("computeStats")
    /\ Len(options.results) = 3
    /\ Len(returned) = 2
    /\ returned[2].model = options.results[1].model
    /\ returned[2].totalRuns = 2
    /\ returned[2].avgLatencyMs = 18
    /\ returned[1].avgLatencyMs = 10


----------------------------------------------------------------------------
(* runBenchmark (benchmark.ts).  The prompts are known by their names; the
   timestamp and the summary sentence of the winner are left out of the
   returned value. *)

DEFAULT_PROMPTS == <<"code-generation", "reasoning", "summarization", "creative">>

\* options.prompts || DEFAULT_PROMPTS
PromptsOf(opts) ==
    IF opts.prompts.given THEN opts.prompts.list ELSE DEFAULT_PROMPTS

\* the rows of a model that cannot be run
UnknownModelRow(q, promptName) ==
    [model |-> q, modelId |-> "unknown", provider |-> "unknown",
     promptName |-> promptName, latencyMs |-> 0, inputTokens |-> 0,
     outputTokens |-> 0, costUsd |-> 0, error |-> <<"Unknown model: ">> \o q]

ErrorRow(model, promptName, message) ==
    [model |-> model.label, modelId |-> model.id,
     provider |-> model.providerName, promptName |-> promptName,
     latencyMs |-> 0, inputTokens |-> 0, outputTokens |-> 0, costUsd |-> 0,
     error |-> message]

MissingKeyMessage(model) ==
    <<"Missing API key for ", model.providerName, " (",
      ConfigOf(model.provider).envKey, ")">>

\* the row of a call that returned res
SuccessRow(model, promptName, res) ==
    [model |-> model.label, modelId |-> model.id,
     provider |-> model.providerName, promptName |-> promptName,
     latencyMs |-> res.latencyMs, inputTokens |-> res.inputTokens,
     outputTokens |-> res.outputTokens,
     costUsd |-> RoundedRatio(res.inputTokens * model.inputCost
                                + res.outputTokens * model.outputCost, 1000),
     error |-> Undefined]

\* the first branch of the set-up: the models named in options.models that
\* resolveModel knows, and the rows of those it does not know
RECURSIVE ResolvedModels(_)
ResolvedModels(queries) ==
    IF queries = <<>> THEN <<>>
    ELSE LET resolved == resolveModel(Head(queries))
         IN (IF resolved # UndefinedEntry THEN <<resolved>> ELSE <<>>)
            \o ResolvedModels(Tail(queries))

RECURSIVE UnknownModelRows(_, _)
UnknownModelRows(queries, prompts) ==
    IF queries = <<>> THEN <<>>
    ELSE (IF resolveModel(Head(queries)) = UndefinedEntry
          THEN [k \in 1..Len(prompts) |->
                   UnknownModelRow(Head(queries), prompts[k])]
          ELSE <<>>)
         \o UnknownModelRows(Tail(queries), prompts)

\* the loops over prompts and models from the pair (pi, mi) on, up to the
\* next call of callProvider or to their end: a model without a key gets
\* its row and the loop continues
RECURSIVE RunLoopsNoKeyCheck(_, _, _, _, _, _)
RunLoopsNoKeyCheck(rows, pi, mi, prompts, models, opts) ==
    IF pi > Len(prompts) THEN [results |-> rows, at |-> <<pi, 1>>, done |-> TRUE]
    ELSE IF mi > Len(models)
    THEN RunLoopsNoKeyCheck(rows, pi + 1, 1, prompts, models, opts)
    ELSE [results |-> rows, at |-> <<pi, mi>>, done |-> FALSE]

RECURSIVE RunLoops(_, _, _, _, _, _)
RunLoops(rows, pi, mi, prompts, models, opts) ==
    IF pi > Len(prompts) THEN [results |-> rows, at |-> <<pi, 1>>, done |-> TRUE]
    ELSE IF mi > Len(models)
    THEN RunLoops(rows, pi + 1, 1, prompts, models, opts)
    ELSE IF ~Truthy(getApiKey(models[mi].provider, opts.apiKeys, opts.env))
    THEN RunLoops(Append(rows, ErrorRow(models[mi], prompts[pi],
                                        MissingKeyMessage(models[mi]))),
                  pi, mi + 1, prompts, models, opts)
    ELSE [results |-> rows, at |-> <<pi, mi>>, done |-> FALSE]

\* [...new Set(values)]
RECURSIVE Distinct(_, _)
Distinct(values, seen) ==
    IF values = <<>> THEN <<>>
    ELSE IF Head(values) \in seen THEN Distinct(Tail(values), seen)
    ELSE <<Head(values)>> \o Distinct(Tail(values), seen \cup {Head(values)})

\* list.reduce((a, b) => key(a) < key(b) ? a : b): the position of the
\* last element of the least key
LeastPosition(keys) ==
    CHOOSE k \in 1..Len(keys) :
        /\ \A j \in 1..Len(keys) : keys[k] <= keys[j]
        /\ \A j \in (k + 1)..Len(keys) : keys[k] < keys[j]

MaxOf(numbers, least) ==
    CHOOSE m \in {numbers[k] : k \in 1..Len(numbers)} \cup {least} :
        /\ m >= least
        /\ \A k \in 1..Len(numbers) : m >= numbers[k]

UndefinedWinner == [fastest |-> Undefined]

pickWinner(stats) ==
    LET ok(st) == st.errorRate[1] < st.errorRate[2]
        valid == SelectSeq(stats, ok)
        latencies == FieldOf(valid, "avgLatencyMs")
        costs == FieldOf(valid, "totalCostUsd")
        maxLatency == MaxOf(latencies, 1)
        maxCost == MaxOf(costs, 1)
        \* the scores, multiplied by maxLatency * maxCost
        scores == [k \in 1..Len(valid) |->
                      latencies[k] * maxCost + costs[k] * maxLatency]
        name(st) == <<st.model, " (", st.provider, ")">>
    IN IF Len(valid) = 0 THEN UndefinedWinner
       ELSE [fastest |-> name(valid[LeastPosition(latencies)]),
             cheapest |-> name(valid[LeastPosition(costs)]),
             bestValue |-> name(valid[LeastPosition(scores)])]

\* the value runBenchmark returns
BenchmarkResult(rows, prompts) ==
    LET stats == computeStats(rows)
    IN [results |-> rows,
        stats |-> stats,
        models |-> Distinct(FieldOf(rows, "model"), {}),
        providers |-> Distinct(FieldOf(rows, "provider"), {}),
        promptCount |-> Len(prompts),
        winner |-> pickWinner(stats)]

\* the run from the pair (pi, mi) on, up to its next await or to its return
ContinueFrom(rows, pi, mi, models) ==
    LET prompts == PromptsOf(options)
        run == RunLoops(rows, pi, mi, prompts, models,
                        [apiKeys |-> options.apiKeys, env |-> env])
    IN /\ results' = run.results
       /\ at' = run.at
       /\ IF run.done
          THEN /\ bpc' = "returned"
               /\ returned' = BenchmarkResult(run.results, prompts)
          ELSE /\ bpc' = "awaitCall"
               /\ returned' = returned

\* runBenchmark(options) up to its first await, its throw or its return
StartBenchmark ==
    /\ bpc = "call"
    /\ options.fn = "runBenchmark"
    /\ UNCHANGED <<agentVars, env, options>>
    /\ IF Len(options.models) > 0
       THEN /\ modelsToRun' = ResolvedModels(options.models)
            /\ ContinueFrom(UnknownModelRows(options.models,
                                             PromptsOf(options)),
                            1, 1, modelsToRun')
       ELSE LET availableProviders ==
                    IF options.providers.given THEN options.providers.list
                    ELSE getAvailableProviders(options.apiKeys, env)
            IN IF Len(availableProviders) = 0
               THEN /\ bpc' = "threw"
                    /\ returned' = [error |-> <<"No API keys found.">>]
                    /\ UNCHANGED <<modelsToRun, results, at>>
               ELSE /\ modelsToRun' = getAllModels(availableProviders)
                    /\ ContinueFrom(<<>>, 1, 1, modelsToRun')

\* what callProvider resolves with and the messages it rejects with
ProviderResults ==
    {[text |-> <<"t">>, latencyMs |-> 10, inputTokens |-> 12,
      outputTokens |-> 20]}
ProviderErrors == {<<"e">>}

\* callProvider resolves: the row is pushed and the loops go on
CallReturns(res) ==
    /\ bpc = "awaitCall"
    /\ UNCHANGED <<agentVars, env, options, modelsToRun>>
    /\ ContinueFrom(Append(results,
                           SuccessRow(modelsToRun[at[2]],
                                      PromptsOf(options)[at[1]], res)),
                    at[1], at[2] + 1, modelsToRun)

\* CallFails without the try/catch around callProvider: the rejection ends
\* runBenchmark
CallFailsUncaught(message) ==
    /\ bpc = "awaitCall"
    /\ bpc' = "threw"
    /\ returned' = [error |-> message]
    /\ UNCHANGED <<agentVars, env, options, modelsToRun, results, at>>

\* callProvider rejects: the catch block pushes an error row
CallFails(message) ==
    /\ bpc = "awaitCall"
    /\ UNCHANGED <<agentVars, env, options, modelsToRun>>
    /\ ContinueFrom(Append(results,
                           ErrorRow(modelsToRun[at[2]],
                                    PromptsOf(options)[at[1]], message)),
                    at[1], at[2] + 1, modelsToRun)

\* the most prompts passed in options.prompts
MaxPrompts == 2

\* the options of the runs: models named, providers named, or neither
BenchmarkOptions ==
    LET given(list) == [given |-> TRUE, list |-> list]
        absent == [given |-> FALSE, list |-> <<>>]
        promptLists == {given(SubSeq(DEFAULT_PROMPTS, 1, n)) : n \in 1..MaxPrompts}
        modelLists == {<<AllModels[5].id>>,
                       <<AllModels[1].label, <<"n", "o", "p", "e">>>>,
                       <<<<"g", "p", "t">>, AllModels[2].id>>,
                       <<AllModels[4].id, AllModels[4].label>>}
        providerLists == {given(<<>>), given(<<"openai">>),
                          given(<<"gemini", "anthropic">>)}
        keyMaps == {a \in ApiKeyMaps :
                      \/ ~a.given
                      \/ a.keys = [p \in CatalogKeys |->
                                     IF p = "openai" THEN <<"k">> ELSE Undefined]
                      \/ a.keys = [p \in CatalogKeys |->
                                     IF p = "gemini" THEN <<"k">>
                                     ELSE IF p = "anthropic" THEN <<>>
                                     ELSE Undefined]}
        shapes == {[models |-> m, providers |-> absent] : m \in modelLists}
                  \cup {[models |-> <<>>, providers |-> p] :
                           p \in providerLists \cup {absent}}
    IN {[fn |-> "runBenchmark", models |-> sh.models,
         providers |-> sh.providers, prompts |-> pr, apiKeys |-> a] :
           sh \in shapes, pr \in promptLists, a \in keyMaps}
       \cup {[fn |-> "runBenchmark", models |-> <<AllModels[5].id>>,
              providers |-> absent, prompts |-> absent, apiKeys |-> a] :
                a \in keyMaps}

InitBench ==
    /\ AgentIdle
    /\ env \in [EnvKeys -> {Undefined, <<"k">>}]
    /\ options \in BenchmarkOptions
    /\ bpc = "call"
    /\ modelsToRun = <<>>
    /\ results = <<>>
    /\ at = <<1, 1>>
    /\ returned = Undefined

NextBench ==
    \/ StartBenchmark
    \/ \E res \in ProviderResults : CallReturns(res)
    \/ \E message \in ProviderErrors : CallFails(message)

SpecBench == InitBench /\ [][NextBench]_vars


----------------------------------------------------------------------------
(* The command line (index.ts).  An argument is one string; the commands
   are followed up to the call of runAgent, of runBenchmark or of the file
   system that they await, and from its outcome to the exit of the
   process.  What is printed is known by its kind. *)

\* no apiKeys argument
NoApiKeys == [given |-> FALSE, keys |-> [p \in CatalogKeys |-> Undefined]]

\* the value of a missing argument; every use of it is a test of its truth,
\* where undefined and "" are alike
NoArg == ""

getArg(args, flag) ==
    LET idx == IndexOf(args, flag)
    IN IF idx # 0 /\ idx + 1 <= Len(args) /\ args[idx + 1] # NoArg
       THEN args[idx + 1]
       ELSE NoArg

NaN == "NaN"

\* parseInt(token, 10) of the arguments of the model
ParseInt(token) ==
    CASE token = "3" -> 3
      [] token = "8" -> 8
      [] OTHER -> NaN

\* args[i].startsWith("--")
StartsWithDashes(token) == token \in {"--help", "--goal", "--max-steps"}

\* the loop of cmdCompare: an option and the argument after it are skipped
RECURSIVE ModelArgs(_, _)
ModelArgs(args, k) ==
    IF k > Len(args) THEN <<>>
    ELSE IF StartsWithDashes(args[k]) THEN ModelArgs(args, k + 2)
    ELSE <<args[k]>> \o ModelArgs(args, k + 1)

\* process.exit(code), or the end of main with nothing left to run
Exit(code, printed) ==
    /\ bpc' = "exited"
    /\ returned' = [exitCode |-> code, printed |-> printed]

\* a command reaches its await
Await(what, call) ==
    /\ bpc' = what
    /\ returned' = call

cmdAgentNoCheck(args) ==
    Await("runAgent",
          [goal |-> IF getArg(args, "--goal") # NoArg
                    THEN getArg(args, "--goal") ELSE "Benchmark all",
           tools |-> "createBenchmarkTools",
           maxSteps |-> ParseInt(IF getArg(args, "--max-steps") # NoArg
                                 THEN getArg(args, "--max-steps") ELSE "8")])

cmdAgent(args) ==
    LET available == getAvailableProviders(NoApiKeys, env)
    IN IF Len(available) = 0
       THEN Exit(1, "No API keys configured.")
       ELSE Await("runAgent",
                  [goal |-> IF getArg(args, "--goal") # NoArg
                            THEN getArg(args, "--goal") ELSE "Benchmark all",
                   tools |-> "createBenchmarkTools",
                   maxSteps |-> ParseInt(IF getArg(args, "--max-steps") # NoArg
                                         THEN getArg(args, "--max-steps")
                                         ELSE "8")])

cmdCompare(args) ==
    LET modelArgs == ModelArgs(args, 2)
    IN IF Len(modelArgs) < 2
       THEN Exit(1, "Need at least 2 models to compare.")
       ELSE Await("runAgent",
                  [goal |-> <<"Compare these models">> \o modelArgs,
                   tools |-> "createCompareTools",
                   maxSteps |-> Undefined])

\* main up to its return, its exit or the await of its command
Main ==
    /\ bpc = "call"
    /\ options.fn = "main"
    /\ UNCHANGED <<agentVars, env, options, modelsToRun, results, at>>
    /\ LET args == options.args
       IN IF Includes(args, "--help") \/ Includes(args, "-h") \/ Len(args) = 0
          THEN Exit(0, "help")
          ELSE CASE args[1] = "agent" -> cmdAgent(args)
                 [] args[1] \in {"dry-run", "demo"} -> Exit(0, "dry-run report")
                 [] args[1] = "providers" -> Exit(0, "providers")
                 [] args[1] = "report" ->
                       IF Len(args) < 2 \/ args[2] = NoArg
                       THEN Exit(1, "Missing results file.")
                       ELSE Await("report", [filePath |-> args[2]])
                 [] args[1] = "compare" -> cmdCompare(args)
                 [] args[1] = "run" ->
                       Await("runBenchmark", [fn |-> "runBenchmark"])
                 [] OTHER -> Exit(1, "Unknown command")

\* runAgent or runBenchmark resolves, or the file of cmdReport is read: the
\* command prints and main returns
CommandReturns ==
    /\ bpc \in {"runAgent", "runBenchmark", "report"}
    /\ UNCHANGED <<agentVars, env, options, modelsToRun, results, at>>
    /\ Exit(0, bpc)

\* runAgent or runBenchmark rejects, or the file is missing or no JSON:
\* cmdReport exits, or main().catch prints the error and exits
CommandFails ==
    /\ bpc \in {"runAgent", "runBenchmark", "report"}
    /\ UNCHANGED <<agentVars, env, options, modelsToRun, results, at>>
    /\ Exit(1, "error")

\* the longest command line
MaxArgs == 3

ArgWords ==
    {"agent", "compare", "run", "report", "providers", "dry-run", "demo",
     "bogus", "--help", "-h", "--goal", "--max-steps", "3", "g"}

CommandLines == UNION {[1..n -> ArgWords] : n \in 0..MaxArgs}

\* no variable set, one set to the empty string, one set to a key
Environments ==
    {[key \in EnvKeys |-> Undefined],
     [key \in EnvKeys |-> IF key = "ANTHROPIC_API_KEY" THEN <<>> ELSE Undefined],
     [key \in EnvKeys |-> IF key = "OPENAI_API_KEY" THEN <<"k">> ELSE Undefined]}

InitCli ==
    /\ AgentIdle
    /\ env \in Environments
    /\ options \in {[fn |-> "main", args |-> a] : a \in CommandLines}
    /\ bpc = "call"
    /\ modelsToRun = <<>>
    /\ results = <<>>
    /\ at = <<1, 1>>
    /\ returned = Undefined

NextCli ==
    \/ Main
    \/ CommandReturns
    \/ CommandFails

SpecCli == InitCli /\ [][NextCli]_vars

----------------------------------------------------------------------------
(* A claim about the command line *)

Commands ==
    {"agent", "dry-run", "demo", "providers", "report", "compare", "run"}

NoCredential == \A k \in EnvKeys : env[k] \in {Undefined, <<>>}

HelpAsked == Includes(options.args, "--help") \/ Includes(options.args, "-h")

ExitedWith(code) == bpc = "exited" /\ returned.exitCode = code

\* C26 as stated: once main has acted, the agent command without a
\* configured credential has exited with code 1 and no agent run was
\* started, and every command name that is not recognized has exited with
\* code 1.
C26_ExitOne ==
    (options.fn = "main" /\ bpc # "call" /\ options.args # <<>>) =>
       /\ (options.args[1] = "agent" /\ NoCredential) => ExitedWith(1)
       /\ options.args[1] \notin Commands => ExitedWith(1)

\* C26 amended: the same, unless --help or -h is among the arguments, where
\* the help is printed and main returns.
C26_ExitOneUnlessHelp ==
    (options.fn = "main" /\ bpc # "call" /\ options.args # <<>>) =>
       /\ (options.args[1] = "agent" /\ NoCredential /\ ~HelpAsked)
             => /\ ExitedWith(1)
                /\ returned.printed = "No API keys configured."
       /\ (options.args[1] \notin Commands /\ ~HelpAsked)
             => /\ ExitedWith(1)
                /\ returned.printed = "Unknown command"
       /\ HelpAsked => ExitedWith(0) /\ returned.printed = "help"

\* the agent command with a goal, the variable of a credential set to the
\* empty string: exit 1 and no run
C26_Witness ==
    /\ options.fn = "main"
    /\ options.args = <<"agent", "--goal", "g">>
    /\ env["ANTHROPIC_API_KEY"] = <<>>
    /\ NoCredential
    /\ ExitedWith(1)

----------------------------------------------------------------------------
(* Claims about runBenchmark *)

\* a key is configured for the provider: a non-empty explicit key or a
\* non-empty environment variable
HasKey(cfg) ==
    \/ /\ options.apiKeys.given
       /\ options.apiKeys.keys[cfg.key] \notin {Undefined, <<>>}
    \/ env[cfg.envKey] \notin {Undefined, <<>>}

\* the rows written so far for the models of providers without a key
KeylessRows ==
    {k \in 1..Len(results) :
        \E p \in 1..Len(PROVIDERS) :
           /\ results[k].provider = PROVIDERS[p].name
           /\ ~HasKey(PROVIDERS[p])}

AutoDiscovery == options.models = <<>> /\ ~options.providers.given

----------------------------------------------------------------------------
(* Claims about the step trace, the transcript and the result of runAgent *)

\* the step ends an iteration whose directive is a tool call: the tool of
\* the call settles, or the reply names a tool that is not in the set
ToolCallIterationEnds ==
    \/ pc = "awaitTool" /\ pc' # "awaitTool"
    \/ ReplyArrives /\ IsToolCall(parsed') /\ NamesNoTool(parsed'.action)

\* the tool-call directives among the replies so far
ToolCallReplies == SelectSeq(RepliesSoFar, LAMBDA r : IsToolCall(DirectiveOf(r)))

\* C31: the step that ends an iteration whose directive is a tool call
\* (the tool returned, the tool failed, or no tool has the name) appends
\* exactly one Step, every other step of a run leaves the trace as it is,
\* and the Steps already recorded stay as they are and where they are; so
\* the trace has one Step for each tool-call iteration that is over.
C31_OneStepPerToolCallIteration ==
    /\ [][pc # "start" =>
            /\ SubSeq(steps', 1, Len(steps)) = steps
            /\ IF ToolCallIterationEnds
               THEN Len(steps') = Len(steps) + 1
               ELSE steps' = steps]_vars
    /\ [](Len(steps) = Len(ToolCallReplies) - (IF pc = "awaitTool" THEN 1 ELSE 0))

\* three iterations: a tool that failed, a reply without a directive, and
\* an unknown tool
C31_Witness ==
    /\ pc = "returned"
    /\ Len(RepliesSoFar) = 3
    /\ IsUnparseable(DirectiveOf(RepliesSoFar[2]))
    /\ Len(steps) = 2
    /\ Head(steps[1].observation) = "Tool error: "
    /\ Head(steps[2].observation) = "Unknown tool: "


\* the step is the arrival of a reply from which a final answer is taken
FinalAnswerArrives == ReplyArrives /\ IsFinalAnswer(parsed')

\* C32: the iteration in which a final answer is taken executes no tool,
\* appends no Step and appends no user message, only the reply, and the run
\* returns that answer, also when the reply carries an Action line; so the
\* last iteration of such a run has no execute call and the transcript ends
\* with the reply.
C32_FinalAnswerExcludesToolCall ==
    /\ [][FinalAnswerArrives =>
            /\ toolLog' = toolLog
            /\ steps' = steps
            /\ messages' = Append(messages, [role |-> "assistant", content |-> text'])
            /\ pc' = "returned"
            /\ result'.finalAnswer = parsed'.finalAnswer
            /\ result'.steps = steps]_vars
    /\ []((pc = "returned" /\ IsFinalAnswer(parsed)) =>
            /\ \A j \in 1..Len(toolLog) : toolLog[j].iteration < i
            /\ messages[Len(messages)] = [role |-> "assistant", content |-> text]
            /\ Len(steps) < Len(RepliesSoFar))

\* a tool call, then a reply with an Action line of a known tool and a
\* Final Answer line: the run returns with the one Step of the first reply
C32_Witness ==
    /\ pc = "returned"
    /\ text = <<MAction, SP, "x", NL, MFinalAnswer, SP, "y">>
    /\ ~NamesNoTool(<<"x">>)
    /\ IsFinalAnswer(parsed)
    /\ Len(RepliesSoFar) = 2
    /\ Len(steps) = 1
    /\ Len(toolLog) = 1
    /\ result.finalAnswer = <<"y">>


----------------------------------------------------------------------------
(* Claims about replies with several lines of one marker *)

\* the lines the parser scans: those before the first line that begins
\* with the Final Answer marker, where the scan stops
ScannedLines(t) ==
    LET lines == Split(t)
        finals == {k \in 1..Len(lines) : StartsWith(Trim(lines[k]), MFinalAnswer)}
    IN IF finals = {} THEN lines
       ELSE SubSeq(lines, 1, (CHOOSE k \in finals : \A m \in finals : k <= m) - 1)

\* the positions of the scanned lines that begin with the marker
LinesWith(t, marker) ==
    {k \in 1..Len(ScannedLines(t)) : StartsWith(Trim(ScannedLines(t)[k]), marker)}

\* the text after the marker of the last scanned line that begins with it
LastPayload(t, marker) ==
    LET last == CHOOSE k \in LinesWith(t, marker) :
                   \A m \in LinesWith(t, marker) : m <= k
    IN Trim(Tail(Trim(ScannedLines(t)[last])))

\* C33: the thought of the directive is the text of the last Thought line
\* scanned and its action the name on the last Action line scanned,
\* however many such lines the reply has: a later line overwrites the
\* value of an earlier one (an empty name leaves the action absent), and
\* without such a line the thought is empty and the action absent.
C33_LastThoughtAndActionWin ==
    WasParsed =>
       /\ parsed.thought =
             IF LinesWith(text, MThought) = {} THEN <<>>
             ELSE LastPayload(text, MThought)
       /\ parsed.action =
             IF LinesWith(text, MAction) = {} THEN Undefined
             ELSE IF LastPayload(text, MAction) = <<>> THEN Undefined
             ELSE LastPayload(text, MAction)

\* two Action lines with different names, then a Thought line
C33_Witness ==
    /\ WasParsed
    /\ Cardinality(LinesWith(text, MAction)) = 2
    /\ text = <<MAction, SP, "x", NL, SP, MAction, "y", SP, NL, MThought, "y">>
    /\ parsed.action = <<"y">>
    /\ parsed.thought = <<"y">>


----------------------------------------------------------------------------
(* Claims about the input of the dispatched tool *)

\* the reply has a line that begins with Action Input
HasInputLine(t) == LinesWith(t, MActionInput) # {}

\* the step is the arrival of a tool call without an input: its Action
\* Input block is empty or it has none
ToolCallWithoutInputArrives ==
    /\ ReplyArrives
    /\ IsToolCall(parsed')
    /\ parsed'.actionInput = Undefined

\* C34: a reply with an Action and an empty or absent Action Input block is
\* a tool call; the run does not raise; a tool of the set is invoked with
\* the empty string, and the Step of the iteration, of a known or of an
\* unknown tool, records the empty string as its actionInput.
C34_MissingInputIsEmptyString ==
    /\ [][ToolCallWithoutInputArrives =>
            /\ pc' # "raised"
            /\ IF NamesNoTool(parsed'.action)
               THEN /\ toolLog' = toolLog
                    /\ steps'[Len(steps')].actionInput = <<>>
               ELSE /\ pc' = "awaitTool"
                    /\ Len(toolLog') = Len(toolLog) + 1
                    /\ tools[toolLog'[Len(toolLog')].tool].name = parsed'.action
                    /\ toolLog'[Len(toolLog')].input = <<>>]_vars
    /\ [][(pc = "awaitTool" /\ pc' # "awaitTool" /\ parsed.actionInput = Undefined) =>
            /\ Len(steps') = Len(steps) + 1
            /\ steps'[Len(steps')].action = parsed.action
            /\ steps'[Len(steps')].actionInput = <<>>]_vars
    /\ []((WasParsed /\ pc # "start" /\ parsed.action # Undefined
              /\ (~HasInputLine(text)
                    \/ \A k \in LinesWith(text, MActionInput) :
                          Trim(BlockText(Split(text), k)) = <<>>))
            => parsed.actionInput = Undefined)

\* tool y was invoked with the empty string for a reply whose Action Input
\* block is empty, and tool x for a reply that has no such block
C34_Witness ==
    /\ Len(steps) = 2
    /\ Len(toolLog) = 2
    /\ HasInputLine(RepliesSoFar[1])
    /\ ~HasInputLine(RepliesSoFar[2])
    /\ \A k \in 1..2 :
          /\ steps[k].actionInput = <<>>
          /\ toolLog[k].input = <<>>
          /\ toolLog[k].outcome = "returned"
    /\ steps[1].action = <<"y">>
    /\ steps[2].action = <<"x">>


----------------------------------------------------------------------------
(* Claims about the shape of the transcript and of the result *)

\* user, assistant, user, ... from the first message on
Alternates(msgs) ==
    \A k \in 1..Len(msgs) :
        msgs[k].role = IF k % 2 = 1 THEN "user" ELSE "assistant"

\* C35: from the set-up of a run on, its transcript is not empty, starts
\* with a user message and alternates user, assistant, user, ...; the k-th
\* completion call was made with a transcript of 2k - 1 messages, the last
\* of them a user message.
C35_TranscriptAlternates ==
    /\ pc \in {"awaitCompletion", "awaitTool", "returned"} => messages # <<>>
    /\ Alternates(messages)
    /\ \A k \in 1..Len(calls) :
          /\ Len(calls[k].messages) = 2 * k - 1
          /\ Alternates(calls[k].messages)
          /\ calls[k].messages[2 * k - 1].role = "user"
          /\ calls[k].iteration = k - 1

\* the third call of a run whose first iteration ran a tool and whose
\* second was answered by the corrective message
C35_Witness ==
    /\ pc = "awaitCompletion"
    /\ Len(calls) = 3
    /\ Len(calls[3].messages) = 5
    /\ Head(calls[3].messages[3].content) = MObservation
    /\ calls[3].messages[5] = NudgeMessage


\* the corrective messages of a transcript
Nudges(msgs) == SelectSeq(msgs, LAMBDA m : m = NudgeMessage)

\* C36: in every result runAgent returns, totalSteps is the number of Steps
\* plus the number of corrective messages appended to the transcript, plus
\* one when the run ended with a final answer; so the number of Steps is at
\* most totalSteps, and less than totalSteps when the run ended with a
\* final answer.
C36_TotalStepsCountsIterations ==
    pc = "returned" =>
        /\ result.totalSteps
              = Len(result.steps) + Len(Nudges(messages))
                + (IF IsFinalAnswer(parsed) THEN 1 ELSE 0)
        /\ Len(result.steps) <= result.totalSteps
        /\ IsFinalAnswer(parsed) => Len(result.steps) < result.totalSteps

\* a run that ended with a final answer after one Step and one corrective
\* message, and a run that used its budget up on one Step and two
\* corrective messages
C36_Witness ==
    /\ pc = "returned"
    /\ Len(result.steps) = 1
    /\ \/ IsFinalAnswer(parsed) /\ Len(Nudges(messages)) = 1
                                /\ result.totalSteps = 3
       \/ ~IsFinalAnswer(parsed) /\ Len(Nudges(messages)) = 2
                                 /\ result.totalSteps = 3


----------------------------------------------------------------------------
(* Claims about a final answer that is blank *)

\* the reply holds the Final Answer marker, and nothing but whitespace
\* after its first occurrence
BlankFinalAnswer(t) ==
    Contains(t, MFinalAnswer) /\ Blank(AfterFirst(t, MFinalAnswer))

\* C37: the finalAnswer of a returned result is never empty or blank; a
\* reply whose Final Answer marker is followed by whitespace only is not
\* taken as a final answer: when it names an action the tool is dispatched
\* (executed if the tool set has it, a Step with the unknown-tool
\* observation otherwise), and when it names none the corrective message
\* is appended and no Step.
C37_BlankFinalAnswerFallsThrough ==
    /\ [](pc = "returned" =>
            /\ result.finalAnswer # Undefined
            /\ ~Blank(result.finalAnswer))
    /\ [][(ReplyArrives /\ BlankFinalAnswer(text')) =>
            /\ ~IsFinalAnswer(parsed')
            /\ pc' = "returned" => result'.finalAnswer = SummaryAnswer(steps')
            /\ IF parsed'.action # Undefined
               THEN IF NamesNoTool(parsed'.action)
                    THEN /\ toolLog' = toolLog
                         /\ Len(steps') = Len(steps) + 1
                         /\ steps'[Len(steps')].action = parsed'.action
                         /\ steps'[Len(steps')].observation
                               = UnknownToolObservation(parsed'.action)
                    ELSE /\ pc' = "awaitTool"
                         /\ Len(toolLog') = Len(toolLog) + 1
                         /\ tools[toolLog'[Len(toolLog')].tool].name
                               = parsed'.action
                         /\ steps' = steps
               ELSE /\ toolLog' = toolLog
                    /\ steps' = steps
                    /\ messages' = messages
                                    \o <<[role |-> "assistant", content |-> text'],
                                         NudgeMessage>>]_vars

\* a run whose first reply named a tool before a blank final answer, so
\* that the tool ran, and whose second reply was nothing but the marker,
\* so that the corrective message followed
C37_Witness ==
    /\ Len(RepliesSoFar) >= 2
    /\ BlankFinalAnswer(RepliesSoFar[1])
    /\ IsToolCall(DirectiveOf(RepliesSoFar[1]))
    /\ Len(toolLog) = 1
    /\ Len(steps) = 1
    /\ RepliesSoFar[2] = <<MFinalAnswer>>
    /\ Len(messages) >= 5
    /\ messages[5] = NudgeMessage


----------------------------------------------------------------------------
(* Claims about the Action Input block that reaches the tool *)

\* the last line of the reply that begins with Action Input
LastInputLine(t) ==
    CHOOSE k \in InputLineIndexes(LinesOf(t)) :
        \A m \in InputLineIndexes(LinesOf(t)) : m <= k

\* the last scanned line of the reply that begins with Action
LastActionLine(t) ==
    CHOOSE k \in LinesWith(t, MAction) : \A m \in LinesWith(t, MAction) : m <= k

\* the step is the arrival of a tool call that has an Action Input block
\* and names a tool of the set
ToolCallWithInputArrives ==
    /\ ReplyArrives
    /\ IsToolCall(parsed')
    /\ ~NamesNoTool(parsed'.action)
    /\ InputLineIndexes(LinesOf(text')) # {}

\* C38: the tool dispatched for a reply is the one named on the reply's
\* last Action line, and the input it is invoked with is the text of the
\* reply's last Action Input block, trimmed, whether that block comes
\* before or after the last Action line.
C38_LastInputBlockIsDispatched ==
    [][ToolCallWithInputArrives =>
         /\ pc' = "awaitTool"
         /\ Len(toolLog') = Len(toolLog) + 1
         /\ tools[toolLog'[Len(toolLog')].tool].name
               = LastPayload(text', MAction)
         /\ IsTrimOf(toolLog'[Len(toolLog')].input,
                     BlockText(LinesOf(text'), LastInputLine(text')))]_vars

\* Action x, an Action Input block of two lines, then Action y: tool y ran
\* with the block as its input
C38_Witness ==
    /\ toolLog # <<>>
    /\ text = <<MAction, SP, "x", NL, MActionInput, SP, "x", NL, "y", NL,
                MAction, SP, "y">>
    /\ LastInputLine(text) < LastActionLine(text)
    /\ tools[toolLog[Len(toolLog)].tool].name = <<"y">>
    /\ toolLog[Len(toolLog)].input = <<"x", NL, "y">>
    /\ toolLog[Len(toolLog)].outcome = "returned"
    /\ steps # <<>>
    /\ steps[Len(steps)].action = <<"y">>
    /\ steps[Len(steps)].actionInput = <<"x", NL, "y">>


----------------------------------------------------------------------------
(* Claims about the tools named in the summary of an exhausted budget *)

\* the names of the tools of the set whose execute failed
FailedNames ==
    {tools[toolLog[j].tool].name :
        j \in {k \in 1..Len(toolLog) : toolLog[k].outcome = "threw"}}

\* the actions of the Steps that name no tool of the set
UnknownNames ==
    {steps[k].action : k \in {m \in 1..Len(steps) : NamesNoTool(steps[m].action)}}

\* C39: the answer returned for an exhausted budget with at least one Step
\* lists after "Tools used: " the distinct action names of all the Steps,
\* each once, in the order of their first Step, joined by ", "; the names
\* of unknown tools and of tools whose execution failed are among them.
C39_SummaryListsEveryStepAction ==
    (Exhausted /\ steps # <<>>) =>
        \E n \in 1..Len(steps) :
           \E L \in [1..n -> {steps[k].action : k \in 1..Len(steps)}] :
              /\ result.finalAnswer =
                    <<"Agent completed ", ToString(Len(steps)),
                      " steps. Tools used: ">>
                    \o Join(L, <<", ">>) \o <<".">>
              /\ L[1] = steps[1].action
              /\ \A k \in 1..Len(steps) : \E m \in 1..n : L[m] = steps[k].action
              /\ \A j, k \in 1..n : j # k => L[j] # L[k]
              /\ \A j, k \in 1..n :
                    j < k => \E m \in 1..Len(steps) :
                                /\ steps[m].action = L[j]
                                /\ \A q \in 1..m : steps[q].action # L[k]
              /\ UnknownNames \subseteq {L[k] : k \in 1..n}
              /\ FailedNames \subseteq {L[k] : k \in 1..n}

\* an exhausted budget of three: an unknown tool, then tool y failing, then
\* the unknown tool again; the summary names the unknown tool and y
C39_Witness ==
    /\ Exhausted
    /\ Len(steps) = 3
    /\ UnknownNames = {steps[1].action}
    /\ FailedNames = {<<"y">>}
    /\ steps[2].action = <<"y">>
    /\ steps[3].action = steps[1].action
    /\ result.finalAnswer =
          <<"Agent completed ", "3", " steps. Tools used: ">>
          \o steps[1].action \o <<", ", "y", ".">>


----------------------------------------------------------------------------
(* Claims about the rows of runBenchmark *)

\* the rows of the pairs of a prompt and a resolved model: all rows but
\* those written at the set-up for the names no model resolves
PairRows(rows) == SelectSeq(rows, LAMBDA r : r.provider # "unknown")

\* the number of the pair (pi, mi) in prompt-major order, from 1
PairNumber(pi, mi) == (pi - 1) * Len(modelsToRun) + mi

PromptOfPair(n) == PromptsOf(options)[((n - 1) \div Len(modelsToRun)) + 1]
ModelOfPair(n) == modelsToRun[((n - 1) % Len(modelsToRun)) + 1]

\* the pairs whose iteration is over
PairsDone ==
    IF bpc = "returned" THEN Len(PromptsOf(options)) * Len(modelsToRun)
    ELSE PairNumber(at[1], at[2]) - 1

\* the step is the rejection of the outstanding provider call
CallFailsNow ==
    /\ bpc = "awaitCall"
    /\ bpc' # "awaitCall" \/ at' # at
    /\ Len(results') > Len(results)
    /\ results'[Len(results) + 1].error \in ProviderErrors

\* C40: the rows of runBenchmark for the pairs of a prompt and a resolved
\* model are one row per pair, in prompt-major order (all models for the
\* first prompt, then all for the second, ...); the row of a pair whose
\* model has no key is an error row that reports the missing key, the row
\* of a pair whose call failed is an error row with the failure's
\* message, and after either the run goes on with the next pair: a failed
\* call does not end the run (runBenchmark raises only at its set-up,
\* before any pair), the next call is for the next pair that has a key,
\* and the returned results hold a row for every pair.
C40_OneRowPerPairInPromptMajorOrder ==
    /\ [](bpc \in {"awaitCall", "returned"} =>
            LET rows == PairRows(results) IN
            /\ Len(rows) = PairsDone
            /\ \A n \in 1..PairsDone :
                  /\ rows[n].promptName = PromptOfPair(n)
                  /\ rows[n].modelId = ModelOfPair(n).id
                  /\ rows[n].model = ModelOfPair(n).label
                  /\ IF HasKey(ConfigOf(ModelOfPair(n).provider))
                     THEN rows[n].error \in ProviderErrors \cup {Undefined}
                     ELSE rows[n].error = MissingKeyMessage(ModelOfPair(n))
            /\ bpc = "awaitCall" =>
                  /\ at[1] \in 1..Len(PromptsOf(options))
                  /\ at[2] \in 1..Len(modelsToRun)
            /\ bpc = "returned" => returned.results = results)
    /\ [](bpc = "threw" => modelsToRun = <<>> /\ results = <<>>)
    /\ [][CallFailsNow =>
            /\ bpc' \in {"awaitCall", "returned"}
            /\ results'[Len(results) + 1]
                  = ErrorRow(modelsToRun[at[2]], PromptsOf(options)[at[1]],
                             results'[Len(results) + 1].error)
            /\ SubSeq(results', 1, Len(results)) = results
            /\ LET next == IF bpc' = "returned"
                           THEN Len(PromptsOf(options)) * Len(modelsToRun) + 1
                           ELSE PairNumber(at'[1], at'[2])
               IN /\ next > PairNumber(at[1], at[2])
                  /\ \A n \in (PairNumber(at[1], at[2]) + 1)..(next - 1) :
                        ~HasKey(ConfigOf(ModelOfPair(n).provider))]_vars

\* a returned run of two prompts over several models: a pair whose call
\* failed and a pair without a key are each followed by a pair whose call
\* returned
C40_Witness ==
    /\ bpc = "returned"
    /\ Len(PromptsOf(options)) = 2
    /\ Len(modelsToRun) >= 2
    /\ LET rows == PairRows(returned.results) IN
         /\ Len(rows) = 2 * Len(modelsToRun)
         /\ \E n \in 1..Len(rows) : \E m \in (n + 1)..Len(rows) :
               /\ rows[n].error \in ProviderErrors
               /\ rows[m].error = Undefined
         /\ \E n \in 1..Len(rows) : \E m \in (n + 1)..Len(rows) :
               /\ ~HasKey(ConfigOf(ModelOfPair(n).provider))
               /\ rows[n].error = MissingKeyMessage(ModelOfPair(n))
               /\ rows[m].error = Undefined

====
